---------------------------- MODULE Spec2Model ----------------------------
(***************************************************************************)
(* Khabar AI: the pipeline orchestrator (app/main.py), the relevance gate  *)
(* (app/agents/triage_agent.py), the risk analyzer                         *)
(* (app/agents/analyst_agent.py) and the deduplicating event store with    *)
(* its notification routing (app/action_layer).                            *)
(*                                                                         *)
(* The model covers the live configuration (settings.dry_run = False and   *)
(* the API keys set), in which every sensor and agent performs its         *)
(* external call.  Text the code transforms (headlines, the gate's answer, *)
(* the severity label) is a sequence of one-character strings, so that     *)
(* strip(), lower(), upper() and startswith() are computed.  The clock is  *)
(* counted in hours and seconds; a timestamp is a number of seconds.       *)
(***************************************************************************)
EXTENDS Integers, Sequences, FiniteSets, TLC

(***************************************************************************)
(* Bounds of the model.                                                    *)
(***************************************************************************)
MaxTime == 25        \* the clock stops advancing at this hour
MaxRuns == 2         \* pipeline runs started over the whole behaviour
MaxArticles == 2     \* items of one company's news feed
IntervalSeconds == 15  \* the seconds of the monitor's sleep that are followed
MaxClock == 48       \* the seconds clock of the rate limiter stops here

TickSteps == {12, 25}         \* hours by which the clock advances

(***************************************************************************)
(* Text helpers: str.strip, str.lower, str.upper, str.startswith.          *)
(***************************************************************************)
LowerCase == <<"a","b","c","d","e","f","g","h","i","j","k","l","m",
               "n","o","p","q","r","s","t","u","v","w","x","y","z">>
UpperCase == <<"A","B","C","D","E","F","G","H","I","J","K","L","M",
               "N","O","P","Q","R","S","T","U","V","W","X","Y","Z">>

IsSpace(c) == c \in {" ", "\t", "\n"}

LowerChar(c) ==
    IF \E i \in 1..26 : UpperCase[i] = c
    THEN LowerCase[CHOOSE i \in 1..26 : UpperCase[i] = c]
    ELSE c

UpperChar(c) ==
    IF \E i \in 1..26 : LowerCase[i] = c
    THEN UpperCase[CHOOSE i \in 1..26 : LowerCase[i] = c]
    ELSE c

lower(s) == [i \in 1..Len(s) |-> LowerChar(s[i])]
upper(s) == [i \in 1..Len(s) |-> UpperChar(s[i])]

RECURSIVE lstrip(_)
lstrip(s) == IF s # <<>> /\ IsSpace(Head(s)) THEN lstrip(Tail(s)) ELSE s

RECURSIVE rstrip(_)
rstrip(s) ==
    IF s # <<>> /\ IsSpace(s[Len(s)]) THEN rstrip(SubSeq(s, 1, Len(s) - 1)) ELSE s

strip(s) == rstrip(lstrip(s))

startswith(s, prefix) ==
    /\ Len(s) >= Len(prefix)
    /\ SubSeq(s, 1, Len(prefix)) = prefix

(***************************************************************************)
(* RiskEvent.compute_headline_hash: SHA-256 of the stripped, lower-cased   *)
(* headline.  The digest is modelled as an injective tag of the text it    *)
(* is computed from (no collisions).                                       *)
(***************************************************************************)
sha256(text) == <<"sha256", text>>

\* compute_headline_hash without the lower()
compute_headline_hash_case_sensitive(headline) == sha256(strip(headline))

compute_headline_hash(headline) == sha256(lower(strip(headline)))

(***************************************************************************)
(* Headlines a news feed can carry.  The first two differ only in case     *)
(* and surrounding whitespace.                                             *)
(***************************************************************************)
Headlines == { <<"T","s">>, <<" ","t","S"," ">>, <<"P">> }

(***************************************************************************)
(* Severity labels, as text.                                               *)
(***************************************************************************)
RED == <<"R","E","D">>
YELLOW == <<"Y","E","L","L","O","W">>
GREEN == <<"G","R","E","E","N">>
Severities == {RED, YELLOW, GREEN}


(***************************************************************************)
(* Static configuration (config/companies.yaml): the tracked companies and *)
(* their supply-chain nodes, and the names a caller may ask a run for.     *)
(***************************************************************************)
TargetCompanies ==
    << [name |-> "Apple Inc", ticker |-> "AAPL",
        supply_chain_nodes |->
            << [entity |-> "TSMC", location |-> "Tainan", type |-> "semiconductor"] >>],
       [name |-> "Tesla Inc", ticker |-> "TSLA",
        supply_chain_nodes |->
            << [entity |-> "Panasonic", location |-> "Nevada", type |-> "battery"] >>] >>

\* str.lower() and str.upper()[:4] on the names a caller can pass
NameLower(n) ==
    CASE n = "Apple Inc" -> "apple inc"
      [] n = "Tesla Inc" -> "tesla inc"
      [] n = "AAPL" -> "aapl"
      [] n = "TSLA" -> "tsla"
      [] n = "Globex" -> "globex"
      [] n = "TSMC" -> "tsmc"
      [] OTHER -> n

NameTicker(n) ==
    CASE n = "Globex" -> "GLOB"
      [] n = "aapl" -> "AAPL"
      [] OTHER -> n

\* company_names arguments: <<>> stands for None (all configured companies).
\* The dashboard's monitor thread and its "run now" button, and monitor.py's
\* WATCHLIST, ask for one company.
WatchlistRequests == { <<"Apple Inc">> }

SeqToSet(s) == { s[i] : i \in 1..Len(s) }

RECURSIVE SelectSeq2(_, _)
SelectSeq2(s, keep) ==
    IF s = <<>> THEN <<>>
    ELSE IF Head(s) \in keep THEN <<Head(s)>> \o SelectSeq2(Tail(s), keep)
    ELSE SelectSeq2(Tail(s), keep)

RECURSIVE AppendMissing(_, _, _)
AppendMissing(companies, names, matched) ==
    IF names = <<>> THEN companies
    ELSE IF NameLower(Head(names)) \in matched
         THEN AppendMissing(companies, Tail(names), matched)
         ELSE AppendMissing(
                Append(companies,
                       [name |-> Head(names), ticker |-> NameTicker(Head(names)),
                        supply_chain_nodes |-> <<>>]),
                Tail(names), matched)

\* RiskMonitor.__init__: self.companies
InitCompanies(company_names) ==
    IF company_names = <<>> THEN TargetCompanies
    ELSE
        LET requested == { NameLower(n) : n \in SeqToSet(company_names) }
            keep == { c \in SeqToSet(TargetCompanies) :
                        \/ NameLower(c.name) \in requested
                        \/ NameLower(c.ticker) \in requested }
            found == SelectSeq2(TargetCompanies, keep)
            matched == { NameLower(c.name) : c \in keep }
                           \cup { NameLower(c.ticker) : c \in keep }
        IN  AppendMissing(found, company_names, matched)

(***************************************************************************)
(* The relevance gate (triage_article).  A response of the classification  *)
(* endpoint is its transport status and, when the exchange succeeded, the  *)
(* decoded JSON: whether it has a "choices" key, and for each choice the   *)
(* message content (<<>> when the key is missing, else <<text>>).          *)
(***************************************************************************)
Txt_YES == <<"Y","E","S">>
Txt_NO == <<"N","O">>

Failures == {"http_error", "timeout", "transport_error", "bad_json"}

Failed(status) == [status |-> status, has_choices |-> FALSE, choices |-> <<>>]
Answer(content) == [status |-> "ok", has_choices |-> TRUE, choices |-> << <<content>> >>]

GateResponses ==
    { Failed(s) : s \in Failures }
    \cup { Answer(c) : c \in { <<"Y","E","S">>, <<" ","y","e","s",".","\n">>,
                                <<"N","O">>, <<>>, <<"M","a","y","b","e">> } }
    \cup { [status |-> "ok", has_choices |-> TRUE, choices |-> <<>>],
           [status |-> "ok", has_choices |-> FALSE, choices |-> <<>>] }

\* data.get("choices", [{}])[0].get("message", {}).get("content", "")
\* raised: the [0] of an empty list (IndexError)
first_content(data) ==
    LET choices == IF data.has_choices THEN data.choices ELSE << <<>> >>
    IN  IF choices = <<>> THEN [raised |-> TRUE, content |-> <<>>]
        ELSE [raised |-> FALSE,
              content |-> IF choices[1] = <<>> THEN <<>> ELSE choices[1][1]]

\* triage_article failing closed: the except clauses return False
triage_article_fail_closed(resp) ==
    IF resp.status # "ok" THEN FALSE
    ELSE
        LET got == first_content(resp)
        IN  IF got.raised THEN FALSE
            ELSE startswith(upper(strip(got.content)), Txt_YES)

\* The try block of triage_article and its two except clauses
triage_article(resp) ==
    IF resp.status # "ok" THEN TRUE
    ELSE
        LET got == first_content(resp)
        IN  IF got.raised THEN TRUE
            ELSE startswith(upper(strip(got.content)), Txt_YES)

(***************************************************************************)
(* The risk analyzer (analyse_risk).  The message content is text that may *)
(* be wrapped in code fences; its body either is no JSON or decodes to an  *)
(* object with some of the five fields of RiskAssessment.                  *)
(***************************************************************************)
AssessmentFields ==
    {"severity", "impact_estimate", "reasoning", "mitigation_strategies", "confidence_score"}

Body(is_json, fields, severity, confidence, mitigations) ==
    [is_json |-> is_json, fields |-> fields, severity |-> severity,
     confidence_score |-> confidence, mitigation_strategies |-> mitigations]

NoBody == Body(FALSE, {}, <<>>, 0, <<>>)

Text(fence_open, fence_close, body) ==
    [fence_open |-> fence_open, fence_close |-> fence_close, body |-> body]

Full(severity, confidence, mitigations) ==
    Body(TRUE, AssessmentFields, severity, confidence, mitigations)

AnalystTexts ==
    { Text(TRUE, TRUE, Full(<<" ","r","e","d"," ">>, 100, <<"m1">>)),
      Text(FALSE, FALSE, Full(<<"g","r","e","e","n">>, 0, <<"m1", "m2">>)),
      Text(TRUE, FALSE, Full(RED, 90, <<"m1">>)),
      Text(FALSE, FALSE, Full(<<"H","I","G","H">>, 90, <<"m1">>)),
      Text(FALSE, FALSE, Full(RED, 101, <<"m1">>)),
      Text(FALSE, FALSE, Full(GREEN, -1, <<"m1">>)),
      Text(FALSE, FALSE, Full(RED, 90, <<>>)),
      Text(FALSE, FALSE, Body(TRUE, AssessmentFields \ {"severity"}, <<>>, 90, <<"m1">>)),
      Text(FALSE, FALSE, NoBody) }

AnalystResponses ==
    { [status |-> s, has_choices |-> FALSE, choices |-> <<>>] : s \in Failures }
    \cup { [status |-> "ok", has_choices |-> TRUE, choices |-> << <<t>> >>] : t \in AnalystTexts }
    \cup { [status |-> "ok", has_choices |-> TRUE, choices |-> <<>>] }

\* _strip_code_fences: the text between the first pair of fences, if any
strip_code_fences(text) ==
    IF text.fence_open /\ text.fence_close THEN Text(FALSE, FALSE, text.body) ELSE text

\* json.loads: raised stands for JSONDecodeError
json_loads(text) ==
    IF text.fence_open \/ text.fence_close \/ ~text.body.is_json
    THEN [raised |-> TRUE, value |-> NoBody]
    ELSE [raised |-> FALSE, value |-> text.body]

\* RiskAssessment.normalise_severity
normalise_severity(v) == upper(strip(v))

\* RiskAssessmentValid without the ge=0, le=100 bounds on confidence_score
RiskAssessmentValid_unbounded_confidence(parsed) ==
    /\ AssessmentFields \subseteq parsed.fields
    /\ normalise_severity(parsed.severity) \in Severities
    /\ Len(parsed.mitigation_strategies) >= 1

\* RiskAssessment(**parsed): the field constraints of the pydantic model
RiskAssessmentValid(parsed) ==
    /\ AssessmentFields \subseteq parsed.fields
    /\ normalise_severity(parsed.severity) \in Severities
    /\ Len(parsed.mitigation_strategies) >= 1
    /\ parsed.confidence_score >= 0
    /\ parsed.confidence_score <= 100

RiskAssessment(severity, mitigations, confidence) ==
    [severity |-> severity, mitigation_strategies |-> mitigations,
     confidence_score |-> confidence]

\* A fallback that keeps the shape but reports full confidence
FallbackAssessment_confident ==
    RiskAssessment(YELLOW, <<"Escalate to human analyst for manual review.">>, 100)

\* The assessment returned by the except clause of analyse_risk
FallbackAssessment ==
    RiskAssessment(YELLOW, <<"Escalate to human analyst for manual review.",
                             "Monitor news feed for follow-up developments.",
                             "Review supply-chain contingency plans.">>, 20)

\* The try block of analyse_risk and its except clause
analyse_risk(resp) ==
    IF resp.status # "ok" THEN FallbackAssessment
    ELSE
        LET choices == IF resp.has_choices THEN resp.choices ELSE << <<>> >>
        IN  IF choices = <<>> THEN FallbackAssessment
            ELSE IF choices[1] = <<>> THEN FallbackAssessment
            ELSE
                LET loaded == json_loads(strip_code_fences(choices[1][1]))
                IN  IF loaded.raised \/ ~RiskAssessmentValid(loaded.value)
                    THEN FallbackAssessment
                    ELSE RiskAssessment(normalise_severity(loaded.value.severity),
                                        loaded.value.mitigation_strategies,
                                        loaded.value.confidence_score)


(***************************************************************************)
(* SupplyChainGraph: a directed graph (networkx DiGraph).  Nodes and edges *)
(* are kept in insertion order, a node with one type, an edge (u, v) with  *)
(* one relationship; adding either again overwrites the attribute.         *)
(***************************************************************************)
EmptyGraph == [nodes |-> <<>>, edges |-> <<>>]

HasNode(g, n) == \E i \in 1..Len(g.nodes) : g.nodes[i].name = n

HasEdge(g, u, v) ==
    \E i \in 1..Len(g.edges) : g.edges[i].source = u /\ g.edges[i].target = v

\* The node list with the attributes of node n overwritten
RECURSIVE set_node(_, _, _)
set_node(nodes, n, type) ==
    IF nodes = <<>> THEN <<>>
    ELSE << IF Head(nodes).name = n THEN [name |-> n, type |-> type] ELSE Head(nodes) >>
         \o set_node(Tail(nodes), n, type)

\* The edge list with the attributes of edge (e.source, e.target) overwritten
RECURSIVE set_edge(_, _)
set_edge(edges, e) ==
    IF edges = <<>> THEN <<>>
    ELSE << IF Head(edges).source = e.source /\ Head(edges).target = e.target
            THEN e ELSE Head(edges) >>
         \o set_edge(Tail(edges), e)

\* DiGraph.add_node(n, type=...)
add_node(g, n, type) ==
    IF HasNode(g, n)
    THEN [g EXCEPT !.nodes = set_node(@, n, type)]
    ELSE [g EXCEPT !.nodes = Append(@, [name |-> n, type |-> type])]

\* add_edge creates a missing end point as a node without attributes
touch_node(g, n) ==
    IF HasNode(g, n) THEN g
    ELSE [g EXCEPT !.nodes = Append(@, [name |-> n, type |-> ""])]

\* add_edge on a graph that keeps parallel edges (a MultiDiGraph)
add_edge_parallel(g, u, v, relationship) ==
    LET g2 == touch_node(touch_node(g, u), v)
    IN  [g2 EXCEPT !.edges =
            Append(@, [source |-> u, target |-> v, relationship |-> relationship])]

\* DiGraph.add_edge(u, v, relationship=...)
add_edge(g, u, v, relationship) ==
    LET g2 == touch_node(touch_node(g, u), v)
        e == [source |-> u, target |-> v, relationship |-> relationship]
    IN  IF HasEdge(g2, u, v)
        THEN [g2 EXCEPT !.edges = set_edge(@, e)]
        ELSE [g2 EXCEPT !.edges = Append(@, e)]

\* f"manufactures_at ({node_type})"
ManufacturesAt(type) ==
    CASE type = "semiconductor" -> "manufactures_at (semiconductor)"
      [] type = "battery" -> "manufactures_at (battery)"
      [] OTHER -> "manufactures_at (unknown)"

\* build_from_config: the inner loop over company["supply_chain_nodes"]
RECURSIVE add_supply_nodes(_, _, _)
add_supply_nodes(g, company_name, nodes) ==
    IF nodes = <<>> THEN g
    ELSE
        LET node == Head(nodes)
            g1 == add_node(g, node.entity, "supplier")
            g2 == add_node(g1, node.location, "location")
            g3 == add_edge(g2, node.location, node.entity, ManufacturesAt(node.type))
            g4 == add_edge(g3, node.entity, company_name, "supplies")
        IN  add_supply_nodes(g4, company_name, Tail(nodes))

RECURSIVE build_from_config(_, _)
build_from_config(g, companies) ==
    IF companies = <<>> THEN g
    ELSE
        LET company == Head(companies)
            g1 == add_node(g, company.name, "company")
        IN  build_from_config(
                add_supply_nodes(g1, company.name, company.supply_chain_nodes),
                Tail(companies))

\* event_label = f"News: {headline[:50]}..." (the headlines here are shorter
\* than 50 characters, so the label keeps the whole headline as written)
EventLabel(headline) ==
    CASE headline = <<"T","s">> -> "News: Ts..."
      [] headline = <<" ","t","S"," ">> -> "News:  tS ..."
      [] headline = <<"P">> -> "News: P..."
      [] OTHER -> "News: ..."

add_event(g, event_label, location) ==
    add_edge(add_node(g, event_label, "event"), event_label, location, "affects")

NodeNames(g) == { g.nodes[i].name : i \in 1..Len(g.nodes) }

successors(g, u) ==
    { g.edges[i].target : i \in { k \in 1..Len(g.edges) : g.edges[k].source = u } }

\* The breadth-first search of nx.descendants: the nodes found so far and
\* the ones found last
RECURSIVE bfs(_, _, _)
bfs(g, frontier, visited) ==
    IF frontier = {} THEN visited
    ELSE
        LET found == UNION { successors(g, u) : u \in frontier } \ visited
        IN  bfs(g, found, visited \cup found)

\* nx.descendants(G, source): every node reachable from source, without source
descendants(g, source) == bfs(g, {source}, {source}) \ {source}

\* graph.nodes[n].get("type")
node_type(g, n) ==
    LET i == CHOOSE k \in 1..Len(g.nodes) : g.nodes[k].name = n
    IN  g.nodes[i].type

\* companies_affected_by_location looking at the direct successors only
companies_affected_by_location_one_hop(g, location) ==
    IF ~HasNode(g, location) THEN {}
    ELSE { n \in successors(g, location) : node_type(g, n) = "company" }

\* companies_affected_by_location; the list it returns is built from a set
\* and is in no particular order, so the result is the set of its elements
companies_affected_by_location(g, location) ==
    IF ~HasNode(g, location) THEN {}
    ELSE { n \in descendants(g, location) : node_type(g, n) = "company" }

(***************************************************************************)
(* persist_edges.  A row of knowledge_graph_edges is its source_node,      *)
(* target_node, relationship_type and company (the key of uq_edge); the    *)
(* rows are in the order of their ids.  A call queries the table once per  *)
(* edge, adds the missing rows to its session (pending) and commits them   *)
(* together after the loop.                                                *)
(***************************************************************************)
\* The edges leaving node u, in the order in which they were added
RECURSIVE out_edges(_, _)
out_edges(edges, u) ==
    IF edges = <<>> THEN <<>>
    ELSE IF Head(edges).source = u THEN <<Head(edges)>> \o out_edges(Tail(edges), u)
    ELSE out_edges(Tail(edges), u)

\* DiGraph.edges(data=True): node by node in the order the nodes were added,
\* the edges leaving a node in the order they were added
RECURSIVE graph_edges(_, _)
graph_edges(nodes, edges) ==
    IF nodes = <<>> THEN <<>>
    ELSE out_edges(edges, Head(nodes).name) \o graph_edges(Tail(nodes), edges)

EdgeRow(e, company_name) ==
    [source_node |-> e.source, target_node |-> e.target,
     relationship_type |-> e.relationship, company |-> company_name]

HasRow(rows, row) == \E i \in 1..Len(rows) : rows[i] = row

\* persist_edge without the query for the existing row
persist_edge_insert_only(rows, pending, e, company_name) ==
    Append(pending, EdgeRow(e, company_name))

\* One iteration of the loop: the query for the existing row, and db.add.
\* The query sees the rows of the table, not the session's own additions
\* (autoflush is off).
persist_edge(rows, pending, e, company_name) ==
    IF HasRow(rows, EdgeRow(e, company_name)) THEN pending
    ELSE Append(pending, EdgeRow(e, company_name))

\* The uniqueness constraint uq_edge refuses the commit
uq_edge_violation(rows, pending) ==
    \E i \in 1..Len(pending) : HasRow(rows, pending[i])

\* "for source, target, data in self.graph.edges(data=True)" with no other
\* session writing in between
RECURSIVE persist_edges_loop(_, _, _, _)
persist_edges_loop(rows, pending, edges, company_name) ==
    IF edges = <<>> THEN pending
    ELSE persist_edges_loop(rows, persist_edge(rows, pending, Head(edges), company_name),
                            Tail(edges), company_name)

\* A whole persist_edges call with no other session writing in between: the
\* table after it and the count it returns
persist_edges(rows, g, company_name) ==
    LET pending == persist_edges_loop(rows, <<>>, graph_edges(g.nodes, g.edges),
                                      company_name)
    IN  [rows |-> rows \o pending, count |-> Len(pending)]

(***************************************************************************)
(* The event store (store_risk_event) and the notification routing.        *)
(***************************************************************************)
WindowHours == 24

\* timedelta(hours=24), in seconds
Window == WindowHours * 3600

\* existing_event with a window of one hour
existing_event_one_hour(risk_events, headline_hash, cutoff) ==
    \E i \in 1..Len(risk_events) :
        /\ risk_events[i].headline_hash = headline_hash
        /\ risk_events[i].created_at >= cutoff + 23 * 3600

\* The dedup query: a row with this hash created at or after the cutoff
existing_event(risk_events, headline_hash, cutoff) ==
    \E i \in 1..Len(risk_events) :
        /\ risk_events[i].headline_hash = headline_hash
        /\ risk_events[i].created_at >= cutoff

\* unique_violation for a column declared without unique=True
unique_violation_never(risk_events, headline_hash) == FALSE

\* The UNIQUE constraint on risk_events.headline_hash: the insert is refused
\* (IntegrityError) when any row, of any age, carries the hash
unique_violation(risk_events, headline_hash) ==
    \E i \in 1..Len(risk_events) : risk_events[i].headline_hash = headline_hash

\* The RiskEvent row built by store_risk_event (the columns the pipeline reads)
RiskEventRow(id, company_name, headline, assessment, created_at) ==
    [id |-> id,
     company_name |-> company_name,
     headline |-> headline,
     headline_hash |-> compute_headline_hash(headline),
     severity |-> assessment.severity,
     mitigation_strategies |-> assessment.mitigation_strategies,
     confidence_score |-> assessment.confidence_score,
     created_at |-> created_at,
     is_notified |-> FALSE]

\* should_notify_immediately that lets every severity but GREEN through
should_notify_unless_green(event) == event.severity # GREEN

should_notify_immediately(event) == event.severity = RED

\* send_console reporting a failed send
send_console_failed(event) == FALSE

send_console(event) == TRUE

\* dispatch_alert: the channels that succeeded
dispatch_alert(event) == IF send_console(event) THEN <<"console">> ELSE <<>>

\* The channels dispatch_alert is configured with
ConfiguredChannels == {"console"}

AlertRow(risk_event_id, channel, status) ==
    [risk_event_id |-> risk_event_id, alert_channel |-> channel, status |-> status]

(***************************************************************************)
(* State.                                                                  *)
(*   now    the wall clock, in hours; limiter.clock adds the seconds       *)
(*   runs   pipeline runs started so far                                   *)
(*   db     the tables risk_events and alert_history                       *)
(*   cache  the module-level caches of the finance and weather sensors     *)
(*   run    per runner, the RiskMonitor object and the position of its     *)
(*          run() call with the local variables of the frames on its stack *)
(*   monitor  the dashboard: the _monitor_cfg dict that the _monitor_loop  *)
(*          thread reads (cfg) and the one of the current Streamlit script *)
(*          run (page), the status file, the position of the thread and of *)
(*          the script run                                                 *)
(*   limiter  the finance sensor's _last_call_ts, the seconds of the wall  *)
(*          clock and the times of the last two requests sent              *)
(*   daemon the monitor.py process: its arguments, the position of main,   *)
(*          its status file and whether the process was told to stop       *)
(*   script the process of a maintenance script (seed_data.py or           *)
(*          demo_run.py): its position, the rows its session holds and     *)
(*          its counters                                                   *)
(* Runner 1 is the dashboard's background monitor thread, runner 2 a       *)
(* manually triggered run.                                                 *)
(***************************************************************************)
VARIABLES now, runs, db, cache, run, monitor, limiter, daemon, script

vars == <<now, runs, db, cache, run, monitor, limiter, daemon, script>>

Runners == {1, 2}

ZeroStats ==
    [total_articles |-> 0, triaged_passed |-> 0, events_stored |-> 0,
     duplicates_skipped |-> 0, alerts_sent |-> 0, errors |-> 0]

IdleRun ==
    [pc |-> "idle", companies |-> <<>>, ci |-> 0, stats |-> ZeroStats,
     articles |-> 0, ai |-> 0, relevant |-> <<>>, ri |-> 0,
     triage_resp |-> <<>>, triage_ret |-> FALSE,
     stock |-> "", weather |-> "",
     analyst_resp |-> <<>>, assessment |-> <<>>,
     cutoff |-> 0, store_ret |-> "", event_id |-> 0,
     channels |-> <<>>, chi |-> 0,
     ei |-> 0, pending |-> <<>>, wake_at |-> 0,
     graph |-> EmptyGraph, startup |-> "", failed |-> {},
     fetch_failed |-> FALSE, fetch_answered |-> FALSE]

\* _monitor_cfg = {...} as the script defines it
DefaultCfg == [interval_min |-> 60, active |-> FALSE, stop_requested |-> FALSE]

\* No script run yet: no thread, no status file.  namespace tells whether
\* the script runs of the session execute in one module namespace or each in
\* a new one.  last_request and stop_pending record the history: the request
\* the UI completed last, and a Stop made during a run or the sleep and not
\* yet reported.
IdleMonitor ==
    [cfg |-> DefaultCfg, page |-> DefaultCfg, namespace |-> "none",
     state |-> "none", tpc |-> "not_started", interval |-> 0, sleep_secs |-> 0,
     upc |-> "idle", is_active |-> FALSE,
     last_request |-> "none", stop_pending |-> FALSE]

\* No script process exists
IdleScript ==
    [pc |-> "idle", launches |-> 0, i |-> 0, t0 |-> 0,
     pending_events |-> <<>>, pending_edges |-> <<>>, last_call_ts |-> 0,
     wake_at |-> 0,
     assessment |-> <<>>, stored |-> 0, errors |-> 0]

RateLimitSeconds == 12

\* _last_call_ts = 0.0 and a clock that is past the first 12 seconds
IdleLimiter ==
    [clock |-> RateLimitSeconds, last_call_ts |-> 0]

\* monitor.py before main: _interval_min = 60 and no status file
IdleDaemon ==
    [pc |-> "main", interval_min |-> 60, once |-> FALSE, state |-> "none",
     stop_requested |-> FALSE]

Init ==
    /\ now = 0
    /\ runs = 0
    /\ db = [risk_events |-> <<>>, alert_history |-> <<>>,
             knowledge_graph_edges |-> <<>>]
    /\ cache = [finance |-> {}, weather |-> {}]
    /\ run = [p \in Runners |-> IdleRun]
    /\ monitor = IdleMonitor
    /\ limiter = IdleLimiter
    /\ daemon = IdleDaemon
    /\ script = IdleScript

\* The locals of _analyse_and_store, dropped when it returns or unwinds
ClearArticle(r) ==
    [r EXCEPT !.weather = "", !.analyst_resp = <<>>, !.assessment = <<>>,
              !.cutoff = 0, !.store_ret = "", !.event_id = 0,
              !.channels = <<>>, !.chi = 0]

\* The locals of _process_company, dropped when it returns or unwinds
ClearCompany(r) ==
    [ClearArticle(r) EXCEPT !.articles = 0, !.ai = 0, !.relevant = <<>>, !.ri = 0,
                            !.triage_resp = <<>>, !.triage_ret = FALSE, !.stock = "",
                            !.ei = 0, !.pending = <<>>, !.wake_at = 0]

\* run(): the next iteration of "for company in self.companies", or the summary
NextCompany(r) ==
    IF r.ci < Len(r.companies)
    THEN [ClearCompany(r) EXCEPT !.pc = "fetch_news", !.ci = @ + 1]
    ELSE [ClearCompany(r) EXCEPT !.pc = "summary"]

\* _process_company: the next iteration of "for article in relevant", or the
\* persist step that follows the loop
NextArticle(r) ==
    IF r.ri < Len(r.relevant)
    THEN [ClearArticle(r) EXCEPT !.pc = "fetch_weather", !.ri = @ + 1]
    ELSE [ClearArticle(r) EXCEPT !.pc = "persist_edges"]

Company(r) == r.companies[r.ci]
Article(r) == r.relevant[r.ri]

\* node = nodes[0] if nodes else {"location": "Unknown", ...}
NodeLocation(company) ==
    IF company.supply_chain_nodes # <<>> THEN company.supply_chain_nodes[1].location
    ELSE "Unknown"

(***************************************************************************)
(* The clock.  Between runs whole hours pass; inside a run the seconds     *)
(* that the rate limiter waits.                                            *)
(***************************************************************************)
Tick ==
    /\ \A p \in Runners : run[p].pc = "idle"
    /\ \E d \in TickSteps : now + d <= MaxTime /\ now' = now + d
    /\ UNCHANGED <<runs, db, cache, run, monitor, limiter, daemon, script>>

(***************************************************************************)
(* RiskMonitor(company_names).run() up to the company loop: init_db, the   *)
(* baseline graph, the cache flush.                                        *)
(***************************************************************************)
\* StartRun falling back to an empty configuration when the file is missing
StartRun_default_config(p, env) ==
    /\ run[p].pc = "idle"
    /\ runs < MaxRuns
    /\ \E company_names \in env.requests, startup \in env.startup :
        LET companies == IF startup = "config_missing"
                         THEN AppendMissing(<<>>, company_names, {})
                         ELSE InitCompanies(company_names)
            r == [IdleRun EXCEPT !.startup = startup, !.companies = companies]
        IN  IF startup = "init_db_raised"
            THEN /\ run' = [run EXCEPT ![p] = [r EXCEPT !.pc = "run_raised"]]
                 /\ UNCHANGED cache
            ELSE /\ run' = [run EXCEPT ![p] = NextCompany(
                        [r EXCEPT !.graph = build_from_config(@, companies)])]
                 /\ cache' = [finance |-> {}, weather |-> {}]
    /\ runs' = runs + 1
    /\ UNCHANGED <<now, db, limiter>>

StartRun(p, env) ==
    /\ run[p].pc = "idle"
    /\ runs < MaxRuns
    /\ \E company_names \in env.requests, startup \in env.startup :
        IF startup = "config_missing"
        THEN /\ run' = [run EXCEPT ![p] =
                    [IdleRun EXCEPT !.startup = startup, !.pc = "init_raised"]]
             /\ UNCHANGED cache
        ELSE LET companies == InitCompanies(company_names)
                 r == [IdleRun EXCEPT !.startup = startup, !.companies = companies]
             IN  IF startup = "init_db_raised"
                 THEN /\ run' = [run EXCEPT ![p] = [r EXCEPT !.pc = "run_raised"]]
                      /\ UNCHANGED cache
                 ELSE /\ run' = [run EXCEPT ![p] = NextCompany(
                            [r EXCEPT !.graph = build_from_config(@, companies)])]
                      /\ cache' = [finance |-> {}, weather |-> {}]
    /\ runs' = runs + 1
    /\ UNCHANGED <<now, db, limiter>>

\* An exception that left RiskMonitor(...) or run() reaches the caller: the
\* dashboard's thread records it, the command line exits
Unwind(p) ==
    /\ run[p].pc \in {"init_raised", "run_raised"}
    /\ run' = [run EXCEPT ![p] = IdleRun]
    /\ UNCHANGED <<now, runs, db, cache, limiter>>


\* How an external request of a sensor can end: a usable answer, a failed
\* request (requests.RequestException), an answer the sensor cannot read
\* (KeyError, ValueError).  Healthy: every sensor gets a usable answer.
FetchOutcomes == {"ok", "request_failed", "raised"}
Healthy == {"ok"}

(***************************************************************************)
(* _process_company, step 1: fetch_news.  The feed is the list of items    *)
(* the RSS endpoint returns; a failed request is caught inside fetch_news  *)
(* and yields the empty list.  The state keeps the number of items; the    *)
(* title of an item is drawn when triage_batch reads it.                   *)
(***************************************************************************)
FetchNews(p, env) ==
    /\ run[p].pc = "fetch_news"
    /\ \E failed \in { o # "ok" : o \in env.outcomes }, n \in 0..env.feed :
        LET articles == IF failed THEN 0 ELSE n
            r == [run[p] EXCEPT !.articles = articles,
                                !.stats.total_articles = @ + articles,
                                !.fetch_failed = @ \/ failed,
                                !.fetch_answered = @ \/ ~failed]
        IN  run' = [run EXCEPT ![p] =
                        IF articles = 0 THEN NextCompany(r)
                        ELSE [r EXCEPT !.pc = "triage", !.ai = 1]]
    /\ UNCHANGED <<now, runs, db, cache, limiter>>

(***************************************************************************)
(* Step 2: triage_batch, one triage_article call per article.              *)
(***************************************************************************)
TriageArticle(p, env) ==
    /\ run[p].pc = "triage"
    /\ \E title \in env.titles, resp \in env.gate :
        LET r == run[p]
            ret == triage_article(resp)
        IN  run' = [run EXCEPT ![p] =
                [r EXCEPT !.triage_resp = <<resp>>,
                          !.triage_ret = ret,
                          !.relevant = IF ret THEN Append(@, title) ELSE @,
                          !.ai = @ + 1,
                          !.pc = IF r.ai = r.articles THEN "triaged" ELSE "triage"]]
    /\ UNCHANGED <<now, runs, db, cache, limiter>>

\* TriageBatchReturn without the "if not relevant: return"
TriageBatchReturn_no_early_return(p) ==
    /\ run[p].pc = "triaged"
    /\ LET r == [run[p] EXCEPT !.stats.triaged_passed = @ + Len(run[p].relevant),
                               !.articles = 0, !.ai = 0,
                               !.triage_resp = <<>>, !.triage_ret = FALSE]
       IN  run' = [run EXCEPT ![p] = [r EXCEPT !.pc = "fetch_stock"]]
    /\ UNCHANGED <<now, runs, db, cache, limiter>>

\* triage_batch returns: the counter, and the early return when nothing passed
TriageBatchReturn(p) ==
    /\ run[p].pc = "triaged"
    /\ LET r == [run[p] EXCEPT !.stats.triaged_passed = @ + Len(run[p].relevant),
                               !.articles = 0, !.ai = 0,
                               !.triage_resp = <<>>, !.triage_ret = FALSE]
       IN  run' = [run EXCEPT ![p] =
                        IF r.relevant = <<>> THEN NextCompany(r)
                        ELSE [r EXCEPT !.pc = "fetch_stock"]]
    /\ UNCHANGED <<now, runs, db, cache, limiter>>

(***************************************************************************)
(* Steps 3 and 4: _safe_fetch_stock once per company, then for each        *)
(* relevant article _analyse_and_store: _safe_fetch_weather, analyse_risk, *)
(* add_event, store_risk_event, routing.                                   *)
(***************************************************************************)
Cached(entries, key) == \E e \in entries : e[1] = key
CachedValue(entries, key) == (CHOOSE e \in entries : e[1] = key)[2]

\* _cache[key] = value
CachePut(entries, key, value) ==
    { e \in entries : e[1] # key } \cup { <<key, value>> }

(***************************************************************************)
(* The finance sensor (fetch_stock_data).  A quote is the change percent   *)
(* of the answer, in whole percent; the result keeps volatility_label.     *)
(***************************************************************************)
VOLATILITY_HIGH_THRESHOLD == 3

\* "high" if abs(change_pct) > _VOLATILITY_HIGH_THRESHOLD else "normal"
volatility_label(change_pct) ==
    IF (IF change_pct < 0 THEN -change_pct ELSE change_pct) > VOLATILITY_HIGH_THRESHOLD
    THEN "high" ELSE "normal"

(***************************************************************************)
(* The weather sensor (fetch_weather).  A reading is the condition code    *)
(* and the temperature in whole degrees Celsius of the current-weather     *)
(* answer; the result keeps weather_code, temperature_c, is_severe and     *)
(* severity_label.                                                         *)
(***************************************************************************)
SEVERE_CODES == (200..232) \cup (502..531) \cup {771, 781}

EXTREME_HEAT_C == 45
EXTREME_COLD_C == -30

assess_severity(code, temp_c) ==
    IF code \in SEVERE_CODES
    THEN [is_severe |-> TRUE, severity_label |-> "severe_weather"]
    ELSE IF temp_c >= EXTREME_HEAT_C
    THEN [is_severe |-> TRUE, severity_label |-> "extreme_heat"]
    ELSE IF temp_c <= EXTREME_COLD_C
    THEN [is_severe |-> TRUE, severity_label |-> "extreme_cold"]
    ELSE [is_severe |-> FALSE, severity_label |-> "normal"]

\* result = {...} of fetch_weather
WeatherResult(code, temp_c) ==
    [weather_code |-> code, temperature_c |-> temp_c,
     is_severe |-> assess_severity(code, temp_c).is_severe,
     severity_label |-> assess_severity(code, temp_c).severity_label]

\* _MOCK_WEATHER with severity_label "unknown": the fallback of a failed request
WeatherFallback ==
    [weather_code |-> 802, temperature_c |-> 28, is_severe |-> FALSE,
     severity_label |-> "unknown"]

\* Condition codes and temperatures on both sides of every boundary
WeatherCodes == {199, 200, 232, 233, 501, 502, 531, 532, 771, 772, 781, 800}
Temperatures == {-31, -30, -29, 0, 44, 45, 46}

\* time.time(), in seconds
time_time == now * 3600 + limiter.clock

\* _safe_fetch_stock up to the request of fetch_stock_data, statement by
\* statement: "if ticker in _cache:", whose miss goes on to
\* _respect_rate_limit, and "return _cache[ticker]".  An entry that the
\* clear_cache of another run removed between the two is a KeyError, which
\* _safe_fetch_stock counts and answers with the label "unknown".
SafeFetchStock(p) ==
    /\ run[p].pc \in {"fetch_stock", "stock_cached"}
    /\ LET r == run[p]
           ticker == Company(r).ticker
       IN  run' = [run EXCEPT ![p] =
                CASE r.pc = "fetch_stock" ->
                        [r EXCEPT !.pc = IF Cached(cache.finance, ticker)
                                         THEN "stock_cached" ELSE "rate_limit"]
                  [] r.pc = "stock_cached" ->
                        IF Cached(cache.finance, ticker)
                        THEN NextArticle(
                                [r EXCEPT !.stock = CachedValue(cache.finance, ticker)])
                        ELSE NextArticle(
                                [r EXCEPT !.stock = "unknown",
                                          !.stats.errors = @ + 1,
                                          !.fetch_failed = TRUE])]
    /\ UNCHANGED <<now, runs, db, cache, limiter>>

\* _respect_rate_limit: elapsed = time.time() - _last_call_ts and the decision
\* to sleep.  Since the clock was read last, no second or some seconds have
\* passed.
RespectRateLimit(p, env) ==
    /\ run[p].pc = "rate_limit"
    /\ \E d \in {0} \cup env.seconds :
        /\ d = 0 \/ limiter.clock + d <= MaxClock
        /\ LET t == time_time + d
               elapsed == t - limiter.last_call_ts
           IN  /\ limiter' = [limiter EXCEPT !.clock = @ + d]
               /\ run' = [run EXCEPT ![p] =
                        IF elapsed < RateLimitSeconds
                        THEN [@ EXCEPT !.pc = "rate_sleep",
                                       !.wake_at = t + (RateLimitSeconds - elapsed)]
                        ELSE [@ EXCEPT !.pc = "rate_stamp"]]
    /\ UNCHANGED <<now, runs, db, cache>>

\* time.sleep(wait) returns: the clock has reached the end of the wait
RateLimitWake(p) ==
    /\ run[p].pc = "rate_sleep"
    /\ limiter' = [limiter EXCEPT !.clock =
                    IF time_time < run[p].wake_at
                    THEN run[p].wake_at - now * 3600 ELSE @]
    /\ run' = [run EXCEPT ![p] = [@ EXCEPT !.pc = "rate_stamp", !.wake_at = 0]]
    /\ UNCHANGED <<now, runs, db, cache>>

\* _last_call_ts = time.time() and, right after it, requests.get(_AV_BASE, ...)
SendRequest(p) ==
    /\ run[p].pc = "rate_stamp"
    /\ limiter' = [limiter EXCEPT !.last_call_ts = time_time]
    /\ run' = [run EXCEPT ![p] = [@ EXCEPT !.pc = "stock_request"]]
    /\ UNCHANGED <<now, runs, db, cache>>

\* The request of fetch_stock_data ends: a usable quote is labelled, cached
\* and returned; a failed request or an empty quote returns _empty_result;
\* any other exception is counted by _safe_fetch_stock
StockAnswer(p, env) ==
    /\ run[p].pc = "stock_request"
    /\ \E outcome \in env.outcomes, change_pct \in env.quotes :
        LET r == run[p]
            ticker == Company(r).ticker
            label == volatility_label(change_pct)
        IN  /\ run' = [run EXCEPT ![p] =
                    NextArticle(
                        [r EXCEPT !.stock = IF outcome = "ok" THEN label ELSE "unknown",
                                  !.stats.errors =
                                        IF outcome = "raised" THEN @ + 1 ELSE @,
                                  !.fetch_failed = @ \/ outcome # "ok",
                                  !.fetch_answered = @ \/ outcome = "ok"])]
            /\ cache' = IF outcome = "ok"
                        THEN [cache EXCEPT !.finance = CachePut(@, ticker, label)]
                        ELSE cache
    /\ UNCHANGED <<now, runs, db, limiter>>

\* _safe_fetch_weather up to the requests of fetch_weather, statement by
\* statement: "if cache_key in _cache:" and "return _cache[cache_key]".  An
\* entry that the clear_cache of another run removed between the two is a
\* KeyError, which _safe_fetch_weather counts and answers with the label
\* "unknown".
SafeFetchWeather(p) ==
    /\ run[p].pc \in {"fetch_weather", "weather_cached"}
    /\ LET r == run[p]
           key == NodeLocation(Company(r))
       IN  run' = [run EXCEPT ![p] =
                CASE r.pc = "fetch_weather" ->
                        [r EXCEPT !.pc = IF Cached(cache.weather, key)
                                         THEN "weather_cached" ELSE "weather_request"]
                  [] r.pc = "weather_cached" ->
                        IF Cached(cache.weather, key)
                        THEN [r EXCEPT !.weather =
                                            CachedValue(cache.weather, key).severity_label,
                                       !.pc = "analyse"]
                        ELSE [r EXCEPT !.weather = "unknown",
                                       !.stats.errors = @ + 1,
                                       !.fetch_failed = TRUE,
                                       !.pc = "analyse"]]
    /\ UNCHANGED <<now, runs, db, cache, limiter>>

\* The requests of fetch_weather end (current weather, then the forecast,
\* whose failure is swallowed): a usable reading is assessed, cached and
\* returned; a failed request returns the fallback; any other exception is
\* counted by _safe_fetch_weather
WeatherAnswer(p, env) ==
    /\ run[p].pc = "weather_request"
    /\ \E outcome \in env.outcomes, reading \in env.readings :
        LET r == run[p]
            key == NodeLocation(Company(r))
            result == WeatherResult(reading[1], reading[2])
        IN  /\ run' = [run EXCEPT ![p] =
                    [r EXCEPT !.weather = CASE outcome = "ok" -> result.severity_label
                                            [] outcome = "request_failed" ->
                                                    WeatherFallback.severity_label
                                            [] OTHER -> "unknown",
                              !.stats.errors =
                                    IF outcome = "raised" THEN @ + 1 ELSE @,
                              !.fetch_failed = @ \/ outcome # "ok",
                              !.fetch_answered = @ \/ outcome = "ok",
                              !.pc = "analyse"]]
            /\ cache' = IF outcome = "ok"
                        THEN [cache EXCEPT !.weather = CachePut(@, key, result)]
                        ELSE cache
    /\ UNCHANGED <<now, runs, db, limiter>>

AnalyseRisk(p, env) ==
    /\ run[p].pc = "analyse"
    /\ \E resp \in env.analyst :
        LET r == run[p]
        IN  run' = [run EXCEPT ![p] =
                [r EXCEPT !.analyst_resp = <<resp>>,
                          !.assessment = <<analyse_risk(resp)>>,
                          !.graph = add_event(@, EventLabel(Article(r)),
                                              NodeLocation(Company(r))),
                          !.pc = "store_check"]]
    /\ UNCHANGED <<now, runs, db, cache, limiter>>

\* StoreCheck with the dedup query filtered by company_name as well
StoreCheck_per_company(p) ==
    /\ run[p].pc = "store_check"
    /\ LET r == run[p]
           cutoff == time_time - Window
           headline_hash == compute_headline_hash(Article(r))
           existing == \E i \in 1..Len(db.risk_events) :
                            /\ db.risk_events[i].headline_hash = headline_hash
                            /\ db.risk_events[i].created_at >= cutoff
                            /\ db.risk_events[i].company_name = Company(r).name
       IN  run' = [run EXCEPT ![p] =
                IF existing
                THEN [r EXCEPT !.analyst_resp = <<>>, !.cutoff = cutoff,
                               !.store_ret = "duplicate", !.pc = "after_store"]
                ELSE [r EXCEPT !.analyst_resp = <<>>, !.cutoff = cutoff,
                               !.pc = "store_insert"]]
    /\ UNCHANGED <<now, runs, db, cache, limiter>>

\* StoreCheck returning the existing event in place of None
StoreCheck_returns_existing(p) ==
    /\ run[p].pc = "store_check"
    /\ LET r == run[p]
           cutoff == time_time - Window
           headline_hash == compute_headline_hash(Article(r))
       IN  run' = [run EXCEPT ![p] =
                IF existing_event(db.risk_events, headline_hash, cutoff)
                THEN [r EXCEPT !.analyst_resp = <<>>, !.cutoff = cutoff,
                               !.store_ret = "stored",
                               !.event_id = CHOOSE i \in 1..Len(db.risk_events) :
                                    /\ db.risk_events[i].headline_hash = headline_hash
                                    /\ db.risk_events[i].created_at >= cutoff,
                               !.pc = "after_store"]
                ELSE [r EXCEPT !.analyst_resp = <<>>, !.cutoff = cutoff,
                               !.pc = "store_insert"]]
    /\ UNCHANGED <<now, runs, db, cache, limiter>>

\* store_risk_event up to "if existing: return None"
StoreCheck(p) ==
    /\ run[p].pc = "store_check"
    /\ LET r == run[p]
           cutoff == time_time - Window
       IN  run' = [run EXCEPT ![p] =
                IF existing_event(db.risk_events, compute_headline_hash(Article(r)), cutoff)
                THEN [r EXCEPT !.analyst_resp = <<>>, !.cutoff = cutoff,
                               !.store_ret = "duplicate", !.pc = "after_store"]
                ELSE [r EXCEPT !.analyst_resp = <<>>, !.cutoff = cutoff,
                               !.pc = "store_insert"]]
    /\ UNCHANGED <<now, runs, db, cache, limiter>>

\* store_risk_event from "event = RiskEvent(...)": db.add, db.commit.  A commit
\* the UNIQUE constraint refuses raises out of store_risk_event, out of
\* _analyse_and_store and out of _process_company.
StoreInsert(p) ==
    /\ run[p].pc = "store_insert"
    /\ LET r == run[p]
           id == Len(db.risk_events) + 1
       IN  IF unique_violation(db.risk_events, compute_headline_hash(Article(r)))
           THEN /\ run' = [run EXCEPT ![p] =
                        [r EXCEPT !.store_ret = "raised", !.pc = "company_error"]]
                /\ UNCHANGED db
           ELSE /\ db' = [db EXCEPT !.risk_events =
                        Append(@, RiskEventRow(id, Company(r).name, Article(r),
                                               r.assessment[1], time_time))]
                /\ run' = [run EXCEPT ![p] =
                        [r EXCEPT !.store_ret = "stored", !.event_id = id,
                                  !.pc = "after_store"]]
    /\ UNCHANGED <<now, runs, cache, limiter>>

\* AfterStore without the return after counting a duplicate
AfterStore_duplicate_falls_through(p) ==
    /\ run[p].pc = "after_store"
    /\ LET r == run[p]
       IN  run' = [run EXCEPT ![p] =
                IF r.store_ret = "duplicate"
                THEN NextArticle([r EXCEPT !.stats.duplicates_skipped = @ + 1,
                                           !.stats.events_stored = @ + 1])
                ELSE IF should_notify_immediately(db.risk_events[r.event_id])
                     THEN [r EXCEPT !.stats.events_stored = @ + 1, !.pc = "dispatch"]
                     ELSE NextArticle([r EXCEPT !.stats.events_stored = @ + 1])]
    /\ UNCHANGED <<now, runs, db, cache, limiter>>

\* _analyse_and_store after store_risk_event returned: the counters and the
\* routing decision
AfterStore(p) ==
    /\ run[p].pc = "after_store"
    /\ LET r == run[p]
       IN  run' = [run EXCEPT ![p] =
                IF r.store_ret = "duplicate"
                THEN NextArticle([r EXCEPT !.stats.duplicates_skipped = @ + 1])
                ELSE IF should_notify_immediately(db.risk_events[r.event_id])
                     THEN [r EXCEPT !.stats.events_stored = @ + 1, !.pc = "dispatch"]
                     ELSE NextArticle([r EXCEPT !.stats.events_stored = @ + 1])]
    /\ UNCHANGED <<now, runs, db, cache, limiter>>

\* channels = dispatch_alert(event).  The print() of send_console can raise
\* (a closed stdout, a console encoding without the severity icon); nothing
\* in dispatch_alert or _analyse_and_store catches that.
DispatchAlert(p, env) ==
    /\ run[p].pc = "dispatch"
    /\ \E console \in env.console :
        LET r == run[p]
            channels == dispatch_alert(db.risk_events[r.event_id])
        IN  run' = [run EXCEPT ![p] =
                IF console = "raised"
                THEN [r EXCEPT !.chi = 1, !.pc = "company_error"]
                ELSE [r EXCEPT !.channels = channels, !.chi = 1,
                               !.pc = IF channels = <<>> THEN "mark_notified"
                                      ELSE "record_alert"]]
    /\ UNCHANGED <<now, runs, db, cache, limiter>>

\* record_alert(db, event.id, ch, "sent") for the next channel
RecordAlert(p) ==
    /\ run[p].pc = "record_alert"
    /\ LET r == run[p]
       IN  /\ db' = [db EXCEPT !.alert_history =
                        Append(@, AlertRow(r.event_id, r.channels[r.chi], "sent"))]
           /\ run' = [run EXCEPT ![p] =
                        [r EXCEPT !.chi = @ + 1,
                                  !.pc = IF r.chi = Len(r.channels) THEN "mark_notified"
                                         ELSE "record_alert"]]
    /\ UNCHANGED <<now, runs, cache, limiter>>

\* mark_notified and the alerts_sent counter
MarkNotified(p) ==
    /\ run[p].pc = "mark_notified"
    /\ LET r == run[p]
       IN  /\ db' = [db EXCEPT !.risk_events[r.event_id].is_notified = TRUE]
           /\ run' = [run EXCEPT ![p] =
                        NextArticle([r EXCEPT !.stats.alerts_sent = @ + Len(r.channels)])]
    /\ UNCHANGED <<now, runs, cache, limiter>>

\* The end of _process_company, after the article loop: one iteration of the
\* loop of persist_edges
PersistEdges(p) ==
    /\ run[p].pc = "persist_edges"
    /\ LET r == run[p]
           edges == graph_edges(r.graph.nodes, r.graph.edges)
       IN  /\ r.ei < Len(edges)
           /\ run' = [run EXCEPT ![p] =
                    [r EXCEPT !.ei = @ + 1,
                              !.pending = persist_edge(db.knowledge_graph_edges, @,
                                                       edges[r.ei + 1], Company(r).name)]]
    /\ UNCHANGED <<now, runs, db, cache, limiter>>

\* "if count: db.commit()" and the return.  A commit that uq_edge refuses
\* raises out of persist_edges and out of _process_company.
PersistCommit(p) ==
    /\ run[p].pc = "persist_edges"
    /\ LET r == run[p]
           edges == graph_edges(r.graph.nodes, r.graph.edges)
       IN  /\ r.ei = Len(edges)
           /\ IF r.pending = <<>>
              THEN /\ run' = [run EXCEPT ![p] = NextCompany(r)]
                   /\ UNCHANGED db
              ELSE IF uq_edge_violation(db.knowledge_graph_edges, r.pending)
              THEN /\ run' = [run EXCEPT ![p] = [r EXCEPT !.pc = "company_error"]]
                   /\ UNCHANGED db
              ELSE /\ db' = [db EXCEPT !.knowledge_graph_edges = @ \o r.pending]
                   /\ run' = [run EXCEPT ![p] = NextCompany(r)]
    /\ UNCHANGED <<now, runs, cache, limiter>>

\* HandleCompanyError with the try around one _analyse_and_store call
HandleCompanyError_per_article(p) ==
    /\ run[p].pc = "company_error"
    /\ run' = [run EXCEPT ![p] =
            NextArticle([run[p] EXCEPT !.stats.errors = @ + 1,
                                       !.failed = @ \cup {run[p].ci}])]
    /\ UNCHANGED <<now, runs, db, cache, limiter>>

\* HandleCompanyError with the try around the whole company loop
HandleCompanyError_abort(p) ==
    /\ run[p].pc = "company_error"
    /\ run' = [run EXCEPT ![p] =
            [ClearCompany(run[p]) EXCEPT !.stats.errors = @ + 1,
                                         !.failed = @ \cup {run[p].ci},
                                         !.pc = "summary"]]
    /\ UNCHANGED <<now, runs, db, cache, limiter>>

\* run(): "except Exception" around _process_company
HandleCompanyError(p) ==
    /\ run[p].pc = "company_error"
    /\ run' = [run EXCEPT ![p] =
            NextCompany([run[p] EXCEPT !.stats.errors = @ + 1,
                                       !.failed = @ \cup {run[p].ci}])]
    /\ UNCHANGED <<now, runs, db, cache, limiter>>

\* run(): _log_summary and "return self.stats"; the RiskMonitor object is
\* dropped by its caller
Finish(p) ==
    /\ run[p].pc = "summary"
    /\ run' = [run EXCEPT ![p] = IdleRun]
    /\ UNCHANGED <<now, runs, db, cache, limiter>>

\* _process_company and what it calls
Work(p, env) ==
    \/ FetchNews(p, env)
    \/ TriageArticle(p, env)
    \/ TriageBatchReturn(p)
    \/ SafeFetchStock(p)
    \/ RespectRateLimit(p, env)
    \/ RateLimitWake(p)
    \/ SendRequest(p)
    \/ StockAnswer(p, env)
    \/ SafeFetchWeather(p)
    \/ WeatherAnswer(p, env)
    \/ AnalyseRisk(p, env)
    \/ StoreCheck(p)
    \/ StoreInsert(p)
    \/ AfterStore(p)
    \/ DispatchAlert(p, env)
    \/ RecordAlert(p)
    \/ MarkNotified(p)
    \/ PersistEdges(p)
    \/ PersistCommit(p)
    \/ HandleCompanyError(p)

\* RiskMonitor(company_names).run()
Step(p, env) ==
    \/ StartRun(p, env)
    \/ Work(p, env)
    \/ Finish(p)

\* A run started from the command line (python -m app.main) or by the
\* dashboard's scan button: the schedulers are not involved
ManualRun(p, env) == Step(p, env) /\ UNCHANGED <<monitor, daemon, script>>

\* ... and the exception that leaves it
ManualUnwind(p) == Unwind(p) /\ UNCHANGED <<monitor, daemon, script>>

(***************************************************************************)
(* Spec: pipeline runs one after the other (one runner), the clock         *)
(* advancing in between, the sensors healthy, the feed carrying any of the *)
(* headlines, the gate answering YES or NO, the analyzer a RED assessment  *)
(* or nothing (the fallback assessment is YELLOW).                         *)
(***************************************************************************)
SequentialEnv ==
    [requests |-> WatchlistRequests, startup |-> {"ok"}, outcomes |-> Healthy,
     feed |-> MaxArticles, seconds |-> {}, quotes |-> {5}, readings |-> { <<202, 20>> },
     console |-> {"ok"}, titles |-> Headlines,
     gate |-> { Answer(Txt_YES), Answer(Txt_NO) },
     analyst |-> { Failed("timeout"),
                   [status |-> "ok", has_choices |-> TRUE,
                    choices |-> << << Text(FALSE, FALSE, Full(RED, 90, <<"m1">>)) >> >>] }]

Next == Tick \/ ManualRun(1, SequentialEnv)

Spec == Init /\ [][Next]_vars

(***************************************************************************)
(* SpecAgents: pipeline runs one after the other whose feed carries two    *)
(* headlines, the gate and the analyzer answering anything.                *)
(***************************************************************************)
AgentsEnv ==
    [requests |-> WatchlistRequests, startup |-> {"ok"}, outcomes |-> Healthy,
     feed |-> MaxArticles, seconds |-> {}, quotes |-> {5}, readings |-> { <<202, 20>> },
     console |-> {"ok"}, titles |-> { <<"T","s">>, <<"P">> },
     gate |-> GateResponses, analyst |-> AnalystResponses]

NextAgents == Tick \/ ManualRun(1, AgentsEnv)

SpecAgents == Init /\ [][NextAgents]_vars

(***************************************************************************)
(* SpecConcurrent: the background monitor thread and a manual run at the   *)
(* same time, every step of one interleaved with every step of the other.  *)
(* A feed carries at most one item, in one of two spellings of one         *)
(* headline; the gate answers YES, the analyzer a RED assessment.          *)
(***************************************************************************)
ConcurrentEnv ==
    [requests |-> WatchlistRequests, startup |-> {"ok"}, outcomes |-> Healthy,
     feed |-> 1, seconds |-> {}, quotes |-> {5}, readings |-> { <<202, 20>> },
     console |-> {"ok"},
     titles |-> { <<"T","s">>, <<" ","t","S"," ">> },
     gate |-> { Answer(Txt_YES) },
     analyst |-> { [status |-> "ok", has_choices |-> TRUE,
                    choices |-> << << Text(TRUE, TRUE,
                                           Full(<<" ","r","e","d"," ">>, 100, <<"m1">>)) >> >>] }]

NextConcurrent == Tick \/ \E p \in Runners : ManualRun(p, ConcurrentEnv)

SpecConcurrent == Init /\ [][NextConcurrent]_vars

(***************************************************************************)
(* SpecFingerprint: runs over one company whose feed carries every         *)
(* spelling of the headlines, each admitted article assessed RED, so that  *)
(* store_risk_event is called with every spelling against every stored     *)
(* spelling.                                                               *)
(***************************************************************************)
FingerprintEnv ==
    [requests |-> { <<"Apple Inc">> }, startup |-> {"ok"}, outcomes |-> Healthy,
     feed |-> MaxArticles, seconds |-> {}, quotes |-> {5}, readings |-> { <<202, 20>> },
     console |-> {"ok"}, titles |-> Headlines,
     gate |-> { Answer(Txt_YES), Answer(Txt_NO) },
     analyst |-> { [status |-> "ok", has_choices |-> TRUE,
                    choices |-> << << Text(FALSE, FALSE, Full(RED, 90, <<"m1">>)) >> >>] }]

NextFingerprint == Tick \/ ManualRun(1, FingerprintEnv)

SpecFingerprint == Init /\ [][NextFingerprint]_vars

(***************************************************************************)
(* SpecDegraded: pipeline runs one after the other over a configured       *)
(* company and a name that is not in the configuration, with every         *)
(* collaborator able to fail: the configuration file and init_db at        *)
(* start-up, the three sensors, the gate, the analyzer and the console.    *)
(* A feed carries at most MaxArticles - 1 items.                           *)
(***************************************************************************)
DegradedEnv ==
    [requests |-> { <<"Apple Inc", "Globex">> },
     startup |-> {"ok", "config_missing", "init_db_raised"},
     outcomes |-> FetchOutcomes,
     feed |-> MaxArticles - 1, seconds |-> {}, quotes |-> {5}, readings |-> { <<202, 20>> },
     console |-> {"ok", "raised"},
     titles |-> { <<"P">> },
     gate |-> { Answer(Txt_YES), Answer(Txt_NO), Failed("timeout") },
     analyst |-> { Failed("timeout"),
                   [status |-> "ok", has_choices |-> TRUE,
                    choices |-> << << Text(FALSE, FALSE, Full(RED, 90, <<"m1">>)) >> >>] }]

NextDegraded == Tick \/ ManualRun(1, DegradedEnv) \/ ManualUnwind(1)

SpecDegraded == Init /\ [][NextDegraded]_vars

(***************************************************************************)
(* SpecWeather: runs over one company whose articles are admitted and      *)
(* assessed RED, the weather endpoint answering any reading or failing.    *)
(***************************************************************************)
WeatherEnv ==
    [requests |-> { <<"Apple Inc">> }, startup |-> {"ok"},
     outcomes |-> {"ok", "request_failed"},
     feed |-> MaxArticles, seconds |-> {}, quotes |-> {-5, 3, 5}, readings |-> WeatherCodes \X Temperatures,
     console |-> {"ok", "raised"}, titles |-> { <<"P">> },
     gate |-> { Answer(Txt_YES) },
     analyst |-> { [status |-> "ok", has_choices |-> TRUE,
                    choices |-> << << Text(FALSE, FALSE, Full(RED, 90, <<"m1">>)) >> >>] }]

NextWeather == ManualRun(1, WeatherEnv)

SpecWeather == Init /\ [][NextWeather]_vars

(***************************************************************************)
(* SpecArticles: one pipeline at a time over two companies whose feeds     *)
(* carry up to MaxArticles items with the same headline; the sensors are   *)
(* healthy, the gate answers YES or NO, the analyzer RED, and the console  *)
(* channel can raise.                                                      *)
(***************************************************************************)
ArticlesEnv ==
    [requests |-> { <<"Apple Inc", "Globex">> },
     startup |-> {"ok"},
     outcomes |-> Healthy,
     feed |-> MaxArticles, seconds |-> {}, quotes |-> {5}, readings |-> { <<202, 20>> },
     console |-> {"ok", "raised"},
     titles |-> { <<"P">> },
     gate |-> { Answer(Txt_YES), Answer(Txt_NO) },
     analyst |-> { [status |-> "ok", has_choices |-> TRUE,
                    choices |-> << << Text(FALSE, FALSE, Full(RED, 90, <<"m1">>)) >> >>] }]

NextArticles == Tick \/ ManualRun(1, ArticlesEnv)

SpecArticles == Init /\ [][NextArticles]_vars

(***************************************************************************)
(* The world of a scheduled run: one watched company, a feed of at most    *)
(* one item, the sensors healthy, the gate admitting, the analyzer         *)
(* answering RED, the console channel working or not; the configuration    *)
(* file or the database can be missing when the run is constructed.        *)
(***************************************************************************)
SchedulerEnv ==
    [requests |-> WatchlistRequests,
     startup |-> {"ok", "config_missing", "init_db_raised"},
     outcomes |-> Healthy,
     feed |-> MaxArticles - 1, seconds |-> {}, quotes |-> {5}, readings |-> { <<202, 20>> },
     console |-> {"ok", "raised"},
     titles |-> { <<"P">> },
     gate |-> { Answer(Txt_YES) },
     analyst |-> { [status |-> "ok", has_choices |-> TRUE,
                    choices |-> << << Text(FALSE, FALSE, Full(RED, 90, <<"m1">>)) >> >>] }]

(***************************************************************************)
(* The dashboard's background monitor: the Streamlit script run and the    *)
(* _monitor_loop thread.  Streamlit executes the script from its first     *)
(* line on every interaction, so every script run binds _monitor_cfg to a  *)
(* new dict (lines 43-48).  The thread is started by the first script run  *)
(* of the session (line 133) and reads the _monitor_cfg of the namespace   *)
(* its function was defined in.  Whether the later script runs execute in  *)
(* that namespace ("reused": the thread reads the dict of the current      *)
(* script run) or each in a new one ("fresh": the thread keeps the dict of *)
(* the first script run) is decided by Streamlit, not by the script; both  *)
(* are followed.  Every read and write of a flag is a step of its own, and *)
(* the pipeline run of a cycle proceeds step by step while the UI goes on. *)
(***************************************************************************)
\* "Run every": two of the options [15, 30, 60, 120, 360], in minutes
IntervalOptions == {15, 60}

\* A write of the script run to its _monitor_cfg
PageWrite(m, key, value) ==
    IF m.namespace = "reused"
    THEN [m EXCEPT !.page[key] = value, !.cfg[key] = value]
    ELSE [m EXCEPT !.page[key] = value]

\* A write of the thread to its _monitor_cfg
ThreadWrite(m, key, value) ==
    IF m.namespace = "reused"
    THEN [m EXCEPT !.cfg[key] = value, !.page[key] = value]
    ELSE [m EXCEPT !.cfg[key] = value]

\* "while not _monitor_cfg["active"] or ...": the read of active
MonitorWaitActive ==
    /\ monitor.tpc = "wait"
    /\ monitor' = [monitor EXCEPT !.tpc =
                    IF monitor.cfg.active THEN "wait_stop" ELSE "if_stop"]
    /\ UNCHANGED <<now, runs, db, cache, run, limiter, daemon, script>>

\* "... or _monitor_cfg["stop_requested"]": the read of stop_requested
MonitorWaitStop ==
    /\ monitor.tpc = "wait_stop"
    /\ monitor' = [monitor EXCEPT !.tpc =
                    IF monitor.cfg.stop_requested THEN "if_stop" ELSE "begin_cycle"]
    /\ UNCHANGED <<now, runs, db, cache, run, limiter, daemon, script>>

\* "if _monitor_cfg["stop_requested"]:" inside the waiting loop and its
\* body, statement by statement: _write_monitor_status("stopped", ...),
\* _monitor_cfg["stop_requested"] = False, _monitor_cfg["active"] = False
MonitorIfStop ==
    /\ monitor.tpc \in {"if_stop", "write_stopped", "clear_stop", "clear_active"}
    /\ monitor' =
        CASE monitor.tpc = "if_stop" ->
                [monitor EXCEPT !.tpc = IF monitor.cfg.stop_requested
                                        THEN "write_stopped" ELSE "sleep2"]
          [] monitor.tpc = "write_stopped" ->
                [monitor EXCEPT !.state = "stopped", !.stop_pending = FALSE,
                                !.tpc = "clear_stop"]
          [] monitor.tpc = "clear_stop" ->
                [ThreadWrite(monitor, "stop_requested", FALSE)
                    EXCEPT !.tpc = "clear_active"]
          [] monitor.tpc = "clear_active" ->
                [ThreadWrite(monitor, "active", FALSE) EXCEPT !.tpc = "sleep2"]
    /\ UNCHANGED <<now, runs, db, cache, run, limiter, daemon, script>>

\* _time.sleep(2)
MonitorSleep2 ==
    /\ monitor.tpc = "sleep2"
    /\ monitor' = [monitor EXCEPT !.tpc = "wait"]
    /\ UNCHANGED <<now, runs, db, cache, run, limiter, daemon, script>>

\* The cycle up to _write_monitor_status("running", ...): company and
\* interval are read
MonitorBeginCycle ==
    /\ monitor.tpc = "begin_cycle"
    /\ runs < MaxRuns
    /\ monitor' = [monitor EXCEPT !.interval = monitor.cfg.interval_min,
                                  !.state = "running", !.tpc = "run_start"]
    /\ UNCHANGED <<now, runs, db, cache, run, limiter, daemon, script>>

\* monitor = RiskMonitor(company_names=[company]) and the entry of run()
MonitorRunStart ==
    /\ monitor.tpc = "run_start"
    /\ StartRun(1, SchedulerEnv)
    /\ monitor' = [monitor EXCEPT !.tpc = "run"]
    /\ UNCHANGED <<daemon, script>>

\* monitor.run(): one step of the pipeline run
MonitorRunStep ==
    /\ monitor.tpc = "run"
    /\ Work(1, SchedulerEnv)
    /\ UNCHANGED <<monitor, daemon, script>>

\* run() returns its stats: _write_monitor_status("idle", ...) and
\* sleep_secs = interval * 60
MonitorRunReturned ==
    /\ monitor.tpc = "run"
    /\ Finish(1)
    /\ monitor' = [monitor EXCEPT !.state = "idle",
                                  !.sleep_secs = monitor.interval * 60,
                                  !.tpc = "sleep_check"]
    /\ UNCHANGED <<daemon, script>>

\* "except Exception": _write_monitor_status("error", ...) and
\* sleep_secs = interval * 60
MonitorRunRaised ==
    /\ monitor.tpc = "run"
    /\ Unwind(1)
    /\ monitor' = [monitor EXCEPT !.state = "error",
                                  !.sleep_secs = monitor.interval * 60,
                                  !.tpc = "sleep_check"]
    /\ UNCHANGED <<daemon, script>>

\* "while sleep_secs > 0 and active and not stop_requested"
MonitorSleepCheck ==
    /\ monitor.tpc = "sleep_check"
    /\ monitor' = [monitor EXCEPT !.tpc =
                    IF /\ monitor.sleep_secs > 0
                       /\ monitor.cfg.active
                       /\ ~monitor.cfg.stop_requested
                    THEN "sleep5" ELSE "wait"]
    /\ UNCHANGED <<now, runs, db, cache, run, limiter, daemon, script>>

\* _time.sleep(min(5, sleep_secs)); sleep_secs -= 5: the chunk passes on the
\* clock, and the flags are read again after it.  The loop is followed for
\* the first IntervalSeconds seconds of the sleep.
MonitorSleep5 ==
    /\ monitor.tpc = "sleep5"
    /\ monitor.interval * 60 - monitor.sleep_secs < IntervalSeconds
    /\ LET secs == IF monitor.sleep_secs < 5 THEN monitor.sleep_secs ELSE 5
           t == time_time + secs
       IN  /\ t \div 3600 <= MaxTime
           /\ now' = t \div 3600
           /\ limiter' = [limiter EXCEPT !.clock = t % 3600]
    /\ monitor' = [monitor EXCEPT !.sleep_secs = @ - 5, !.tpc = "sleep_check"]
    /\ UNCHANGED <<runs, db, cache, run, daemon, script>>

MonitorThread ==
    \/ MonitorWaitActive
    \/ MonitorWaitStop
    \/ MonitorIfStop
    \/ MonitorSleep2
    \/ MonitorBeginCycle
    \/ MonitorRunStart
    \/ MonitorRunStep
    \/ MonitorRunReturned
    \/ MonitorRunRaised
    \/ MonitorSleepCheck
    \/ MonitorSleep5

\* The positions of the thread inside a cycle's pipeline run or the sleep
\* after it
RunOrSleep == {"run_start", "run", "sleep_check", "sleep5"}

\* While the dashboard is not open or the thread waits to be activated, any
\* time can pass
MonitorTick ==
    /\ monitor.tpc \in {"not_started", "wait", "wait_stop", "if_stop", "sleep2"}
    /\ Tick

\* A script run begins: _monitor_cfg = {...} (lines 43-48) and
\* _ensure_monitor_thread(), which starts the thread in the first script run
\* of the session
UIScriptStart ==
    /\ monitor.upc \in {"idle", "rerun"}
    /\ \E ns \in IF monitor.namespace = "none" THEN {"fresh", "reused"}
                 ELSE {monitor.namespace} :
        monitor' = [monitor EXCEPT
                        !.namespace = ns,
                        !.page = DefaultCfg,
                        !.cfg = IF ns = "reused" THEN DefaultCfg ELSE @,
                        !.tpc = IF @ = "not_started" THEN "wait" ELSE @,
                        !.upc = "script"]
    /\ UNCHANGED <<now, runs, db, cache, run, limiter, daemon, script>>

\* _is_active = _monitor_cfg.get("active", False) and the controls
UIRender ==
    /\ monitor.upc = "script"
    /\ monitor' = [monitor EXCEPT !.is_active = monitor.page.active,
                                  !.upc = "rendered"]
    /\ UNCHANGED <<now, runs, db, cache, run, limiter, daemon, script>>

\* The script run ends with no button of the monitor pressed
UINoClick ==
    /\ monitor.upc = "rendered"
    /\ monitor' = [monitor EXCEPT !.upc = "idle"]
    /\ UNCHANGED <<now, runs, db, cache, run, limiter, daemon, script>>

\* The button of the script run was pressed.  "if _is_active:" "Stop
\* Monitoring": _monitor_cfg["stop_requested"] = True and st.rerun(); else
\* "Start Monitoring": company, interval_min and _monitor_cfg["active"] = True
UIButtonPressed ==
    /\ monitor.upc = "rendered"
    /\ \E sel_interval \in IntervalOptions :
        monitor' =
            IF monitor.is_active
            THEN [PageWrite(monitor, "stop_requested", TRUE) EXCEPT
                        !.last_request = "stop",
                        !.stop_pending = @ \/ monitor.tpc \in RunOrSleep,
                        !.upc = "rerun"]
            ELSE [PageWrite(PageWrite(monitor, "interval_min", sel_interval),
                            "active", TRUE)
                    EXCEPT !.upc = "start_clear"]
    /\ UNCHANGED <<now, runs, db, cache, run, limiter, daemon, script>>

\* ... and _monitor_cfg["stop_requested"] = False, then st.rerun()
UIStartClear ==
    /\ monitor.upc = "start_clear"
    /\ monitor' = [PageWrite(monitor, "stop_requested", FALSE) EXCEPT
                        !.last_request = "start",
                        !.upc = "rerun"]
    /\ UNCHANGED <<now, runs, db, cache, run, limiter, daemon, script>>

NextMonitor ==
    \/ MonitorThread
    \/ MonitorTick
    \/ UIScriptStart
    \/ UIRender
    \/ UINoClick
    \/ UIButtonPressed
    \/ UIStartClear

SpecMonitor == Init /\ [][NextMonitor]_vars

(***************************************************************************)
(* The stand-alone scheduler, monitor.py: main with its arguments          *)
(* --interval and --once.  The loop reads no flag and installs no signal   *)
(* handler; the one way to stop it is a signal to the process, which ends  *)
(* it where it stands (no handler of the source catches                    *)
(* KeyboardInterrupt).                                                     *)
(***************************************************************************)
\* --interval, in minutes: the default and 25 hours
DaemonIntervals == {60, 1500}

\* main up to _write_status("starting", ...)
DaemonMain ==
    /\ daemon.pc = "main"
    /\ \E interval \in DaemonIntervals, once \in BOOLEAN :
        daemon' = [daemon EXCEPT !.interval_min = interval, !.once = once,
                                 !.state = "starting", !.pc = "cycle"]
    /\ UNCHANGED <<now, runs, db, cache, run, monitor, limiter, script>>

\* The top of "while True": _write_status("running", ...)
DaemonBeginCycle ==
    /\ daemon.pc = "cycle"
    /\ runs < MaxRuns
    /\ daemon' = [daemon EXCEPT !.state = "running", !.pc = "run_cycle_start"]
    /\ UNCHANGED <<now, runs, db, cache, run, monitor, limiter, script>>

\* run_cycle(): monitor = RiskMonitor(company_names=WATCHLIST) and the entry
\* of run()
DaemonRunCycleStart ==
    /\ daemon.pc = "run_cycle_start"
    /\ StartRun(1, SchedulerEnv)
    /\ daemon' = [daemon EXCEPT !.pc = "run_cycle"]
    /\ UNCHANGED <<monitor, script>>

\* run_cycle(): one step of monitor.run()
DaemonRunCycleStep ==
    /\ daemon.pc = "run_cycle"
    /\ Work(1, SchedulerEnv)
    /\ UNCHANGED <<monitor, daemon, script>>

\* run_cycle() returns the stats: _write_status("idle", ...)
DaemonRunCycleReturned ==
    /\ daemon.pc = "run_cycle"
    /\ Finish(1)
    /\ daemon' = [daemon EXCEPT !.state = "idle", !.pc = "if_once"]
    /\ UNCHANGED <<monitor, script>>

\* "except Exception": _write_status("error", ...)
DaemonRunCycleRaised ==
    /\ daemon.pc = "run_cycle"
    /\ Unwind(1)
    /\ daemon' = [daemon EXCEPT !.state = "error", !.pc = "if_once"]
    /\ UNCHANGED <<monitor, script>>

\* "if args.once: break": main returns, the process ends
DaemonIfOnce ==
    /\ daemon.pc = "if_once"
    /\ daemon' = [daemon EXCEPT !.pc = IF daemon.once THEN "returned" ELSE "sleep"]
    /\ UNCHANGED <<now, runs, db, cache, run, monitor, limiter, script>>

\* time.sleep(_interval_min * 60) returns after the whole interval
DaemonSleep ==
    /\ daemon.pc = "sleep"
    /\ now + daemon.interval_min \div 60 <= MaxTime
    /\ now' = now + daemon.interval_min \div 60
    /\ daemon' = [daemon EXCEPT !.pc = "cycle"]
    /\ UNCHANGED <<runs, db, cache, run, monitor, limiter, script>>

\* The process is told to stop (SIGINT or SIGTERM) anywhere in main: it
\* ends there with its RiskMonitor object and what that had not committed,
\* and the status file keeps what was written last
DaemonInterrupt ==
    /\ daemon.pc \in {"main", "cycle", "run_cycle_start", "run_cycle",
                      "if_once", "sleep"}
    /\ daemon' = [daemon EXCEPT !.stop_requested = TRUE, !.pc = "exited"]
    /\ run' = [run EXCEPT ![1] = IdleRun]
    /\ UNCHANGED <<now, runs, db, cache, monitor, limiter, script>>

DaemonThread ==
    \/ DaemonMain
    \/ DaemonBeginCycle
    \/ DaemonRunCycleStart
    \/ DaemonRunCycleStep
    \/ DaemonRunCycleReturned
    \/ DaemonRunCycleRaised
    \/ DaemonIfOnce
    \/ DaemonSleep

NextScheduler ==
    \/ DaemonThread
    \/ DaemonInterrupt

\* The stand-alone scheduler is a process of its own (python src/monitor.py)
\* with its own sensor caches.  It is live: the main loop is scheduled again
\* and again, and sleep and the steps of the pipeline run return
SpecScheduler == Init /\ [][NextScheduler]_vars /\ WF_vars(DaemonThread)

(***************************************************************************)
(* The maintenance scripts, each a process of its own on the same          *)
(* database: seed_data.py (seed) and demo_run.py.  Their headlines are     *)
(* written with short texts, like the ones of the feeds.                   *)
(***************************************************************************)
\* events = [...] of seed(): the demo rows, dated 2, 6 and 12 hours before
\* the start of the script
SeedEvents(t0) ==
    << [company_name |-> "Apple Inc", headline |-> <<"T","s">>,
        severity |-> RED, mitigation_strategies |-> <<"m1", "m2", "m3">>,
        confidence_score |-> 87, created_at |-> t0 - 2 * 3600, is_notified |-> TRUE],
       [company_name |-> "Apple Inc", headline |-> <<"F">>,
        severity |-> YELLOW, mitigation_strategies |-> <<"m1", "m2", "m3">>,
        confidence_score |-> 72, created_at |-> t0 - 6 * 3600, is_notified |-> FALSE],
       [company_name |-> "NVIDIA Corporation", headline |-> <<"L">>,
        severity |-> GREEN, mitigation_strategies |-> <<"m1", "m2", "m3">>,
        confidence_score |-> 91, created_at |-> t0 - 12 * 3600, is_notified |-> TRUE] >>

\* edges = [...] of seed()
SeedEdges ==
    << [source_node |-> "Shenzhen, China", target_node |-> "Foxconn",
        relationship_type |-> "manufactures_at (manufacturing)", company |-> "Apple Inc"],
       [source_node |-> "Foxconn", target_node |-> "Apple Inc",
        relationship_type |-> "supplies", company |-> "Apple Inc"],
       [source_node |-> "Tainan, Taiwan", target_node |-> "TSMC",
        relationship_type |-> "manufactures_at (semiconductor)", company |-> "Apple Inc"],
       [source_node |-> "TSMC", target_node |-> "Apple Inc",
        relationship_type |-> "supplies", company |-> "Apple Inc"],
       [source_node |-> "Taipei, Taiwan", target_node |-> "TSMC",
        relationship_type |-> "manufactures_at (semiconductor)",
        company |-> "NVIDIA Corporation"],
       [source_node |-> "TSMC", target_node |-> "NVIDIA Corporation",
        relationship_type |-> "supplies", company |-> "NVIDIA Corporation"],
       [source_node |-> "Typhoon Gaemi", target_node |-> "Tainan, Taiwan",
        relationship_type |-> "affects", company |-> "Apple Inc"],
       [source_node |-> "Labor Dispute", target_node |-> "Shenzhen, China",
        relationship_type |-> "affects", company |-> "Apple Inc"] >>

\* The RiskEvent row of a seeded event
SeedEventRow(id, e) ==
    [RiskEventRow(id, e.company_name, e.headline,
                  RiskAssessment(e.severity, e.mitigation_strategies, e.confidence_score),
                  e.created_at)
        EXCEPT !.is_notified = e.is_notified]

\* seed's query for an event: a row with this hash, of any age
seed_existing(risk_events, headline_hash) ==
    \E i \in 1..Len(risk_events) : risk_events[i].headline_hash = headline_hash

\* python seed_data.py: init_db() and the two lists
SeedStart ==
    /\ script.pc = "idle"
    /\ script.launches < MaxRuns
    /\ script' = [IdleScript EXCEPT !.pc = "seed_events", !.t0 = time_time,
                                    !.launches = script.launches + 1]
    /\ UNCHANGED <<now, runs, db, cache, run, monitor, limiter, daemon>>

\* "for event in events": the query, and db.add when no row has the hash
SeedEventQuery ==
    /\ script.pc = "seed_events"
    /\ LET e == SeedEvents(script.t0)[script.i + 1]
           last == script.i + 1 = Len(SeedEvents(script.t0))
       IN  script' = [script EXCEPT
                !.pending_events =
                    IF seed_existing(db.risk_events, compute_headline_hash(e.headline))
                    THEN @ ELSE Append(@, e),
                !.i = IF last THEN 0 ELSE @ + 1,
                !.pc = IF last THEN "seed_edges" ELSE @]
    /\ UNCHANGED <<now, runs, db, cache, run, monitor, limiter, daemon>>

\* "for edge in edges": the query, and db.add when the row is not there
SeedEdgeQuery ==
    /\ script.pc = "seed_edges"
    /\ LET e == SeedEdges[script.i + 1]
           last == script.i + 1 = Len(SeedEdges)
       IN  script' = [script EXCEPT
                !.pending_edges =
                    IF HasRow(db.knowledge_graph_edges, e) THEN @ ELSE Append(@, e),
                !.i = IF last THEN 0 ELSE @ + 1,
                !.pc = IF last THEN "seed_commit" ELSE @]
    /\ UNCHANGED <<now, runs, db, cache, run, monitor, limiter, daemon>>

\* db.commit(): every added row is written, or none when a UNIQUE
\* constraint refuses one (the IntegrityError leaves seed and ends the script)
SeedCommit ==
    /\ script.pc = "seed_commit"
    /\ LET refused ==
            \/ \E k \in 1..Len(script.pending_events) :
                    unique_violation(db.risk_events,
                        compute_headline_hash(script.pending_events[k].headline))
            \/ uq_edge_violation(db.knowledge_graph_edges, script.pending_edges)
           n == Len(db.risk_events)
       IN  /\ db' = IF refused THEN db
                    ELSE [db EXCEPT
                            !.risk_events = @ \o
                                [k \in 1..Len(script.pending_events) |->
                                    SeedEventRow(n + k, script.pending_events[k])],
                            !.knowledge_graph_edges = @ \o script.pending_edges]
           /\ script' = [IdleScript EXCEPT !.launches = script.launches,
                                           !.errors = IF refused THEN 1 ELSE 0]
    /\ UNCHANGED <<now, runs, cache, run, monitor, limiter, daemon>>

\* SCENARIOS of demo_run.py: company, ticker and headline of each
SCENARIOS ==
    << [company |-> "Apple Inc", ticker |-> "AAPL", headline |-> <<"P">>],
       [company |-> "NVIDIA Corporation", ticker |-> "NVDA", headline |-> <<"A">>],
       [company |-> "Tesla Inc", ticker |-> "TSLA", headline |-> <<"L","i">>],
       [company |-> "Amazon", ticker |-> "AMZN", headline |-> <<"W">>],
       [company |-> "Walmart", ticker |-> "WMT", headline |-> <<"H">>] >>

\* The next iteration of "for i, scenario in enumerate(SCENARIOS, 1)", or the
\* end of the script
NextScenario(sc) ==
    IF sc.i < Len(SCENARIOS)
    THEN [sc EXCEPT !.i = @ + 1, !.assessment = <<>>, !.pc = "demo_triage"]
    ELSE [IdleScript EXCEPT !.launches = sc.launches, !.stored = sc.stored,
                            !.errors = sc.errors]

\* python demo_run.py: init_db() and clear_cache() of the process's own,
\* still empty, finance cache, its _last_call_ts at 0.0.  No two scenarios
\* share a ticker or a place, so the caches of the process never answer a
\* fetch.
DemoStart ==
    /\ script.pc = "idle"
    /\ script.launches < MaxRuns
    /\ script' = [IdleScript EXCEPT !.pc = "demo_triage", !.i = 1, !.t0 = time_time,
                                    !.launches = script.launches + 1]
    /\ UNCHANGED <<now, runs, db, cache, run, monitor, limiter, daemon>>

\* relevant = triage_article(...); "if not relevant: continue"
DemoTriage(env) ==
    /\ script.pc = "demo_triage"
    /\ \E resp \in env.gate :
        script' = IF triage_article(resp)
                  THEN [script EXCEPT !.pc = "demo_rate_limit"]
                  ELSE NextScenario(script)
    /\ UNCHANGED <<now, runs, db, cache, run, monitor, limiter, daemon>>

\* stock = fetch_stock_data(ticker) up to its request: the cache misses, and
\* _respect_rate_limit reads the clock and decides to sleep when fewer than
\* 12 seconds have passed since the process's _last_call_ts
DemoRespectRateLimit ==
    /\ script.pc = "demo_rate_limit"
    /\ LET elapsed == time_time - script.last_call_ts
       IN  script' = IF elapsed < RateLimitSeconds
                     THEN [script EXCEPT !.pc = "demo_rate_sleep",
                                         !.wake_at = time_time
                                                        + (RateLimitSeconds - elapsed)]
                     ELSE [script EXCEPT !.pc = "demo_rate_stamp"]
    /\ UNCHANGED <<now, runs, db, cache, run, monitor, limiter, daemon>>

\* time.sleep(wait) returns: the clock has reached the end of the wait
DemoRateLimitWake ==
    /\ script.pc = "demo_rate_sleep"
    /\ limiter' = [limiter EXCEPT !.clock =
                    IF time_time < script.wake_at
                    THEN script.wake_at - now * 3600 ELSE @]
    /\ script' = [script EXCEPT !.pc = "demo_rate_stamp", !.wake_at = 0]
    /\ UNCHANGED <<now, runs, db, cache, run, monitor, daemon>>

\* _last_call_ts = time.time() of the process
DemoSendRequest ==
    /\ script.pc = "demo_rate_stamp"
    /\ script' = [script EXCEPT !.last_call_ts = time_time, !.pc = "demo_stock"]
    /\ UNCHANGED <<now, runs, db, cache, run, monitor, limiter, daemon>>

\* ... and the request: no _safe_fetch_stock here, what fetch_stock_data
\* raises reaches the "except Exception" of the scenario
DemoStock(env) ==
    /\ script.pc = "demo_stock"
    /\ \E outcome \in env.outcomes :
        script' = IF outcome = "raised"
                  THEN NextScenario([script EXCEPT !.errors = @ + 1])
                  ELSE [script EXCEPT !.pc = "demo_weather"]
    /\ UNCHANGED <<now, runs, db, cache, run, monitor, limiter, daemon>>

\* weather = fetch_weather(lat, lon, node_location)
DemoWeather(env) ==
    /\ script.pc = "demo_weather"
    /\ \E outcome \in env.outcomes :
        script' = IF outcome = "raised"
                  THEN NextScenario([script EXCEPT !.errors = @ + 1])
                  ELSE [script EXCEPT !.pc = "demo_analyse"]
    /\ UNCHANGED <<now, runs, db, cache, run, monitor, limiter, daemon>>

\* assessment = analyse_risk(...)
DemoAnalyse(env) ==
    /\ script.pc = "demo_analyse"
    /\ \E resp \in env.analyst :
        script' = [script EXCEPT !.assessment = <<analyse_risk(resp)>>,
                                 !.pc = "demo_store_check"]
    /\ UNCHANGED <<now, runs, db, cache, run, monitor, limiter, daemon>>

\* store_risk_event up to "if existing: return None" ("Duplicate - skipped")
DemoStoreCheck ==
    /\ script.pc = "demo_store_check"
    /\ LET headline == SCENARIOS[script.i].headline
       IN  script' =
                IF existing_event(db.risk_events, compute_headline_hash(headline),
                                  time_time - Window)
                THEN NextScenario(script)
                ELSE [script EXCEPT !.pc = "demo_store_insert"]
    /\ UNCHANGED <<now, runs, db, cache, run, monitor, limiter, daemon>>

\* store_risk_event from "event = RiskEvent(...)": the row is written with
\* is_notified False and "stored" counted; the script routes no alert.  A
\* refused commit is counted by the "except Exception" of the scenario.
DemoStoreInsert ==
    /\ script.pc = "demo_store_insert"
    /\ LET scenario == SCENARIOS[script.i]
           id == Len(db.risk_events) + 1
       IN  IF unique_violation(db.risk_events, compute_headline_hash(scenario.headline))
           THEN /\ script' = NextScenario([script EXCEPT !.errors = @ + 1])
                /\ UNCHANGED db
           ELSE /\ db' = [db EXCEPT !.risk_events =
                        Append(@, RiskEventRow(id, scenario.company, scenario.headline,
                                               script.assessment[1], time_time))]
                /\ script' = NextScenario([script EXCEPT !.stored = @ + 1])
    /\ UNCHANGED <<now, runs, cache, run, monitor, limiter, daemon>>

ScriptProcess(env) ==
    \/ SeedStart
    \/ SeedEventQuery
    \/ SeedEdgeQuery
    \/ SeedCommit
    \/ DemoStart
    \/ DemoTriage(env)
    \/ DemoRespectRateLimit
    \/ DemoRateLimitWake
    \/ DemoSendRequest
    \/ DemoStock(env)
    \/ DemoWeather(env)
    \/ DemoAnalyse(env)
    \/ DemoStoreCheck
    \/ DemoStoreInsert

(***************************************************************************)
(* SpecScripts: one pipeline run at a time and, beside it, a maintenance   *)
(* script on the same database, every step of one interleaved with every   *)
(* step of the other; the sensors and the agents answer.  The clock         *)
(* advances while no script runs.                                          *)
(***************************************************************************)
ScriptsEnv ==
    [requests |-> WatchlistRequests,
     startup |-> {"ok"},
     outcomes |-> {"ok"},
     feed |-> MaxArticles - 1, seconds |-> {}, quotes |-> {5}, readings |-> { <<202, 20>> },
     console |-> {"ok"},
     titles |-> { <<"T","s">>, <<"P">> },
     gate |-> { Answer(Txt_YES) },
     analyst |-> { [status |-> "ok", has_choices |-> TRUE,
                    choices |-> << << Text(FALSE, FALSE, Full(RED, 90, <<"m1">>)) >> >>] }]

ScriptsTick == script.pc = "idle" /\ Tick

NextScripts ==
    \/ ScriptsTick
    \/ ManualRun(1, ScriptsEnv)
    \/ ScriptProcess(ScriptsEnv)

SpecScripts == Init /\ [][NextScripts]_vars

(***************************************************************************)
(* SpecDemo: the maintenance scripts alone, one launch after the other;    *)
(* the gate admits or rejects a scenario and every fetch of demo_run.py    *)
(* can raise.                                                              *)
(***************************************************************************)
DemoEnv ==
    [ScriptsEnv EXCEPT !.outcomes = {"ok", "raised"},
                       !.gate = { Answer(Txt_YES), Answer(Txt_NO) }]

NextDemo ==
    \/ ScriptsTick
    \/ ScriptProcess(DemoEnv)

SpecDemo == Init /\ [][NextDemo]_vars

(***************************************************************************)
(* SpecRateLimit: the background monitor thread and a manual run at the    *)
(* same time, each over one company whose article is admitted, so that     *)
(* both reach fetch_stock_data; between two readings of the clock no       *)
(* second, 4 or 12 seconds pass.                                           *)
(***************************************************************************)
ClockSteps == {4, 12}

RateLimitEnv ==
    [requests |-> { <<"Apple Inc">>, <<"Tesla Inc">> }, startup |-> {"ok"},
     outcomes |-> Healthy,
     feed |-> MaxArticles - 1, seconds |-> ClockSteps, quotes |-> {5},
     readings |-> { <<202, 20>> },
     console |-> {"ok"}, titles |-> { <<"P">> },
     gate |-> { Answer(Txt_YES) },
     analyst |-> { [status |-> "ok", has_choices |-> TRUE,
                    choices |-> << << Text(FALSE, FALSE, Full(GREEN, 10, <<"m1">>)) >> >>] }]

NextRateLimit == \E p \in Runners : ManualRun(p, RateLimitEnv)

SpecRateLimit == Init /\ [][NextRateLimit]_vars

(***************************************************************************)
(* SpecGraph: one RiskMonitor object and its knowledge graph.  The object  *)
(* is constructed for a list of names; build_from_config runs on every     *)
(* run() of the object, add_event for every analysed article.              *)
(***************************************************************************)
GraphRequests == { <<>>, <<"Apple Inc", "TSMC">>, <<"Globex">> }

GraphNew ==
    \E company_names \in GraphRequests :
        /\ run' = [run EXCEPT ![1] =
                [IdleRun EXCEPT !.companies = InitCompanies(company_names)]]
        /\ UNCHANGED <<now, runs, db, cache, monitor, limiter, daemon, script>>

GraphBuild ==
    /\ run[1].companies # <<>>
    /\ run' = [run EXCEPT ![1].graph = build_from_config(@, run[1].companies)]
    /\ UNCHANGED <<now, runs, db, cache, monitor, limiter, daemon, script>>

GraphAddEvent ==
    \E headline \in Headlines, k \in 1..Len(run[1].companies) :
        /\ run' = [run EXCEPT ![1].graph =
                add_event(@, EventLabel(headline), NodeLocation(run[1].companies[k]))]
        /\ UNCHANGED <<now, runs, db, cache, monitor, limiter, daemon, script>>

NextGraph == GraphNew \/ GraphBuild \/ GraphAddEvent

SpecGraph == Init /\ [][NextGraph]_vars

(***************************************************************************)
(* Properties of the event store.                                          *)
(***************************************************************************)
\* The fingerprint of a headline as the specification words it: the text
\* trimmed and lower-cased
Normalised(headline) == lower(strip(headline))

SameFingerprint(h1, h2) == Normalised(h1) = Normalised(h2)

RowIds == 1..Len(db.risk_events)

\* C1: a store_risk_event call whose headline normalises to the text of an
\* event created less than 24 hours earlier returns None and writes nothing.
C1_DuplicateWithinWindow ==
    [][\A p \in Runners :
        ( /\ run[p].pc = "store_check"
          /\ \E i \in RowIds :
                /\ SameFingerprint(db.risk_events[i].headline, Article(run[p]))
                /\ time_time - db.risk_events[i].created_at < Window )
        => ( /\ run'[p].pc = "after_store"
             /\ run'[p].store_ret = "duplicate"
             /\ db' = db )]_vars

\* A second spelling of a headline stored 12 hours earlier was just refused
C1_Witness ==
    \E p \in Runners : \E i \in RowIds :
        /\ run[p].pc = "after_store"
        /\ run[p].store_ret = "duplicate"
        /\ SameFingerprint(db.risk_events[i].headline, Article(run[p]))
        /\ db.risk_events[i].headline # Article(run[p])
        /\ time_time - db.risk_events[i].created_at = 12 * 3600

\* The earlier events of the headline a runner is storing, its own new row
\* left out
EarlierSame(r) ==
    { i \in RowIds : /\ i # r.event_id
                     /\ SameFingerprint(db.risk_events[i].headline, Article(r)) }

\* C2: a store_risk_event call for a headline whose only earlier events are
\* more than 24 hours old returns a new event, and both rows exist.
C2_StoreAfterWindow ==
    \A p \in Runners :
        LET r == run[p]
        IN  ( /\ r.pc \in {"after_store", "company_error"}
              /\ EarlierSame(r) # {}
              /\ \A i \in EarlierSame(r) : db.risk_events[i].created_at < r.cutoff )
            => ( /\ r.store_ret = "stored"
                 /\ r.event_id \in RowIds
                 /\ r.event_id \notin EarlierSame(r)
                 /\ SameFingerprint(db.risk_events[r.event_id].headline, Article(r)) )

\* C3: under every interleaving of two runs, two rows with one fingerprint
\* are never less than 24 hours apart.
C3_OneRowPerFingerprint ==
    \A i, j \in RowIds :
        ( /\ i < j
          /\ SameFingerprint(db.risk_events[i].headline, db.risk_events[j].headline) )
        => db.risk_events[j].created_at - db.risk_events[i].created_at >= Window

\* Both runs passed the dedup query for one fingerprint at the same instant;
\* one inserted its row and the other's commit was refused
C3_Witness ==
    \E p, q \in Runners :
        /\ p # q
        /\ run[p].pc = "company_error"
        /\ run[p].store_ret = "raised"
        /\ run[q].pc = "after_store"
        /\ run[q].store_ret = "stored"
        /\ SameFingerprint(Article(run[p]), Article(run[q]))
        /\ db.risk_events[run[q].event_id].created_at = time_time
        /\ run[p].cutoff = time_time - Window

(***************************************************************************)
(* Properties of the relevance gate.                                       *)
(***************************************************************************)
\* C4: when the classification call fails (HTTP error status, timeout,
\* transport error, unparsable body) the gate returns pass.
C4_GateFailOpen ==
    \A p \in Runners :
        ( /\ run[p].triage_resp # <<>>
          /\ run[p].triage_resp[1].status \in Failures )
        => run[p].triage_ret = TRUE

\* The body of the response was no JSON and the article was admitted
C4_Witness ==
    \E p \in Runners :
        /\ run[p].triage_resp = << Failed("bad_json") >>
        /\ run[p].triage_ret = TRUE
        /\ run[p].relevant # <<>>

\* The answer text of a successful gate response, "" when it carries none
GateAnswer(resp) ==
    IF resp.has_choices /\ resp.choices # <<>> /\ resp.choices[1] # <<>>
    THEN upper(strip(resp.choices[1][1]))
    ELSE <<>>

\* C5: on a successful call the gate rejects only an answer that is clearly
\* NO; an empty answer or any other text is admitted.
C5_AdmitOnAmbiguous ==
    \A p \in Runners :
        ( /\ run[p].triage_resp # <<>>
          /\ run[p].triage_resp[1].status = "ok"
          /\ ~startswith(GateAnswer(run[p].triage_resp[1]), Txt_NO) )
        => run[p].triage_ret = TRUE

(***************************************************************************)
(* Properties of the risk analyzer.                                        *)
(***************************************************************************)
\* The required shape of the analyzer's answer
WellFormed(text) ==
    /\ text.fence_open = text.fence_close
    /\ text.body.is_json
    /\ AssessmentFields \subseteq text.body.fields
    /\ upper(strip(text.body.severity)) \in Severities
    /\ text.body.confidence_score \in 0..100
    /\ text.body.mitigation_strategies # <<>>

Usable(resp) ==
    /\ resp.status = "ok"
    /\ resp.has_choices
    /\ resp.choices # <<>>
    /\ resp.choices[1] # <<>>
    /\ WellFormed(resp.choices[1][1])

\* C6: when the analyzer call fails or its answer does not have the required
\* shape, analyse_risk returns YELLOW with confidence below 50 and at least
\* one mitigation.
C6_AnalystFallback ==
    \A p \in Runners :
        ( /\ run[p].analyst_resp # <<>>
          /\ ~Usable(run[p].analyst_resp[1]) )
        => ( /\ run[p].assessment # <<>>
             /\ run[p].assessment[1].severity = YELLOW
             /\ run[p].assessment[1].confidence_score < 50
             /\ run[p].assessment[1].confidence_score >= 0
             /\ run[p].assessment[1].mitigation_strategies # <<>> )

\* The analyzer answered RED with confidence 101 and the fallback came back
C6_Witness ==
    \E p \in Runners :
        /\ run[p].analyst_resp # <<>>
        /\ run[p].analyst_resp[1].status = "ok"
        /\ run[p].analyst_resp[1].choices # <<>>
        /\ run[p].analyst_resp[1].choices[1][1].body.confidence_score = 101
        /\ run[p].assessment = << FallbackAssessment >>
        /\ run[p].pc = "store_check"

\* C7: when _process_company ends, store_risk_event has been invoked for
\* every article the gate admitted.
C7_EveryAdmittedStored ==
    \A p \in Runners :
        run[p].pc \in {"persist_edges", "company_error"}
        => run[p].ri = Len(run[p].relevant)

\* C8: every stored event has a severity of RED, YELLOW or GREEN, a
\* confidence in [0, 100] and at least one mitigation.
C8_StoredEventShape ==
    \A i \in RowIds :
        /\ db.risk_events[i].severity \in Severities
        /\ db.risk_events[i].confidence_score >= 0
        /\ db.risk_events[i].confidence_score <= 100
        /\ db.risk_events[i].mitigation_strategies # <<>>

\* The store holds an event from a fallback assessment and one from an
\* answer at the edge of the confidence range
C8_Witness ==
    /\ \E i \in RowIds : /\ db.risk_events[i].severity = YELLOW
                         /\ db.risk_events[i].confidence_score = 20
    /\ \E i \in RowIds : /\ db.risk_events[i].severity = RED
                         /\ db.risk_events[i].confidence_score = 100

(***************************************************************************)
(* Properties of the notification routing.                                 *)
(***************************************************************************)
\* The runner that stored event i is still between store_risk_event and the
\* end of the routing block
Routing(i) ==
    \E p \in Runners :
        /\ run[p].event_id = i
        /\ run[p].pc \in {"after_store", "dispatch", "record_alert", "mark_notified"}

AlertsFor(i, channel) ==
    { k \in 1..Len(db.alert_history) :
        /\ db.alert_history[k].risk_event_id = i
        /\ db.alert_history[k].alert_channel = channel }

\* C9: once the routing of a RED event is complete, there is exactly one
\* alert record for each configured channel and the event is notified.
C9_RedRouted ==
    \A i \in RowIds :
        ( db.risk_events[i].severity = RED /\ ~Routing(i) )
        => ( /\ db.risk_events[i].is_notified
             /\ \A ch \in ConfiguredChannels : Cardinality(AlertsFor(i, ch)) = 1
             /\ \A k \in 1..Len(db.alert_history) :
                    db.alert_history[k].risk_event_id = i
                    => db.alert_history[k].alert_channel \in ConfiguredChannels )

\* Two RED events went through the routing, each with its one console alert
C9_Witness ==
    \E i, j \in RowIds :
        /\ i # j
        /\ db.risk_events[i].severity = RED
        /\ db.risk_events[j].severity = RED
        /\ ~Routing(i)
        /\ ~Routing(j)
        /\ db.risk_events[j].is_notified
        /\ Cardinality(AlertsFor(j, "console")) = 1

\* C10: a YELLOW or GREEN event is never dispatched, has no alert record and
\* stays un-notified.
C10_NoAlertBelowRed ==
    \A i \in RowIds :
        db.risk_events[i].severity \in {YELLOW, GREEN}
        => ( /\ ~db.risk_events[i].is_notified
             /\ \A k \in 1..Len(db.alert_history) :
                    db.alert_history[k].risk_event_id # i
             /\ \A p \in Runners :
                    run[p].event_id = i
                    => run[p].pc \notin {"dispatch", "record_alert", "mark_notified"} )

\* A YELLOW and a GREEN event were stored and their runs moved on
C10_Witness ==
    \E i, j \in RowIds :
        /\ db.risk_events[i].severity = YELLOW
        /\ db.risk_events[j].severity = GREEN
        /\ ~Routing(i)
        /\ ~Routing(j)

(***************************************************************************)
(* Properties of the knowledge graph.                                      *)
(***************************************************************************)
\* C20: from any graph a monitor can hold, build_from_config applied twice
\* with the monitor's company list gives the same nodes and edges, in the
\* same number, as applied once.
C20_BuildIdempotent ==
    \A p \in Runners :
        \A once \in { build_from_config(run[p].graph, run[p].companies) } :
            \A twice \in { build_from_config(once, run[p].companies) } :
                /\ twice = once
                /\ Len(twice.edges) = Len(once.edges)
                /\ Len(twice.nodes) = Len(once.nodes)

\* A built graph of two companies, one of them also the other's supplier,
\* that carries an event
C20_Witness ==
    /\ Len(run[1].companies) = 2
    /\ run[1].companies[2].name = "TSMC"
    /\ run[1].graph = build_from_config(run[1].graph, run[1].companies)
    /\ Len(run[1].graph.edges) >= 3
    /\ \E i \in 1..Len(run[1].graph.nodes) : run[1].graph.nodes[i].type = "event"

(***************************************************************************)
(* Properties of the audit trail.                                          *)
(***************************************************************************)
\* C11: every dispatch attempt on a channel leaves exactly one alert record
\* for that channel, whether the send succeeded or failed.
C11_OneRecordPerAttempt ==
    \A p \in Runners :
        ( /\ run[p].pc \in {"mark_notified", "company_error"}
          /\ run[p].chi >= 1 )
        => \A ch \in ConfiguredChannels :
                Cardinality(AlertsFor(run[p].event_id, ch)) = 1

AlertsIn(alert_history, i) ==
    { k \in 1..Len(alert_history) : alert_history[k].risk_event_id = i }

\* C12: a notified event stays notified and gets no further alert record,
\* and alerts are recorded and the flag is set only for an event created in
\* the current hour by the run that is routing it.
C12_NotifiedOnce ==
    [][\A i \in RowIds :
        /\ db.risk_events[i].is_notified
            => ( /\ db'.risk_events[i].is_notified
                 /\ AlertsIn(db'.alert_history, i) = AlertsIn(db.alert_history, i) )
        /\ ( \/ AlertsIn(db'.alert_history, i) # AlertsIn(db.alert_history, i)
             \/ db'.risk_events[i].is_notified # db.risk_events[i].is_notified )
            => ( /\ db.risk_events[i].created_at \div 3600 = now
                 /\ Cardinality(AlertsIn(db'.alert_history, i))
                        <= Cardinality(ConfiguredChannels)
                 /\ \E p \in Runners :
                        /\ run[p].event_id = i
                        /\ run[p].pc \in {"record_alert", "mark_notified"} )]_vars

\* A later run met the headline of a notified event again and skipped it
C12_Witness ==
    \E p \in Runners : \E i \in RowIds :
        /\ run[p].pc = "after_store"
        /\ run[p].store_ret = "duplicate"
        /\ SameFingerprint(db.risk_events[i].headline, Article(run[p]))
        /\ db.risk_events[i].is_notified
        /\ db.risk_events[i].created_at \div 3600 < now
        /\ Cardinality(AlertsIn(db.alert_history, i)) = 1

(***************************************************************************)
(* Properties of the failure isolation.                                    *)
(***************************************************************************)
\* The rows a sequential run has stored so far are the last events_stored
\* rows; StoredByFailed: row i was stored in this run by a company whose
\* processing raised
StoredByFailed(r, i) ==
    /\ i > Len(db.risk_events) - r.stats.events_stored
    /\ \E k \in r.failed : r.companies[k].name = db.risk_events[i].company_name

\* C13 as stated: the counts of the other companies are what they would be
\* with the failing company absent, so no article of another company is
\* skipped as a duplicate of rows that only the failing company stored.
C13_AsIfAbsent ==
    \A p \in Runners :
        ( /\ run[p].pc = "after_store"
          /\ run[p].store_ret = "duplicate" )
        => \E i \in RowIds :
                /\ SameFingerprint(db.risk_events[i].headline, Article(run[p]))
                /\ db.risk_events[i].created_at >= run[p].cutoff
                /\ ~StoredByFailed(run[p], i)

\* C13 as amended: when the processing of a company raises, the run goes on
\* with the next company of the list (or the summary after the last), the
\* error counter grows by exactly 1, and no other counter and nothing in the
\* store changes.
C13_Isolation ==
    [][\A p \in Runners :
        run[p].pc = "company_error"
        => ( /\ run'[p].stats = [run[p].stats EXCEPT !.errors = @ + 1]
             /\ db' = db
             /\ IF run[p].ci < Len(run[p].companies)
                THEN run'[p].pc = "fetch_news" /\ run'[p].ci = run[p].ci + 1
                ELSE run'[p].pc = "summary" )]_vars

\* The first company raised and the second one has just stored an event
C13_Witness ==
    \E p \in Runners :
        /\ run[p].failed = {1}
        /\ run[p].ci = 2
        /\ run[p].pc = "after_store"
        /\ run[p].stats.errors = 1
        /\ run[p].stats.duplicates_skipped = 1

\* The step of a sensor call that failed
FetchFailedStep(p) ==
    \/ run[p].pc = "fetch_news" /\ ~run[p].fetch_failed /\ run'[p].fetch_failed
    \/ run[p].pc = "stock_request" /\ run'[p].stock = "unknown"
    \/ run[p].pc = "weather_request" /\ run'[p].weather = "unknown"

\* C14: a failed news, market or weather fetch increments the error counter
\* and does not abort the company.
C14_FetchFailureCounted ==
    [][\A p \in Runners :
        FetchFailedStep(p)
        => ( /\ run'[p].stats.errors = run[p].stats.errors + 1
             /\ run'[p].pc # "company_error" )]_vars

\* C15: run() never raises.
C15_RunNeverRaises ==
    \A p \in Runners : run[p].pc # "run_raised"

\* C16: the summary of a run in which every external call failed has an
\* error count above zero.
C16_AllFallbackCounted ==
    \A p \in Runners :
        ( /\ run[p].pc = "summary"
          /\ run[p].fetch_failed
          /\ ~run[p].fetch_answered )
        => run[p].stats.errors > 0

\* C17 as stated: with a target company that has no declared supply-chain
\* nodes, or is not in the configuration, no company is processed.
C17_MissingTopologyFatal ==
    \A p \in Runners :
        ( \E k \in 1..Len(run[p].companies) :
                run[p].companies[k].supply_chain_nodes = <<>> )
        => run[p].pc \in {"idle", "init_raised", "run_raised"}

\* C17 as amended: when the configuration cannot be loaded the construction
\* of the monitor raises and no company is processed: nothing is fetched,
\* counted, stored or dispatched.
C17_ConfigErrorFatal ==
    [][\A p \in Runners :
        run'[p].startup = "config_missing"
        => ( /\ run'[p].pc = "init_raised"
             /\ run'[p].companies = <<>>
             /\ run'[p].stats = ZeroStats
             /\ run'[p].graph = EmptyGraph
             /\ db' = db
             /\ cache' = cache )]_vars

\* A run was asked for a name that is not in the configuration while the
\* configuration file was missing
C17_Witness ==
    \E p \in Runners :
        /\ run[p].startup = "config_missing"
        /\ run[p].pc = "init_raised"
        /\ runs = MaxRuns
        /\ db.risk_events # <<>>

(***************************************************************************)
(* Properties of the order of the steps.                                   *)
(***************************************************************************)
Enriching == {"fetch_stock", "fetch_weather", "analyse", "store_check", "store_insert",
              "after_store", "dispatch", "record_alert", "mark_notified"}

\* C18: market fetch, weather fetch, analyzer call and store happen only
\* once the gate admitted an article of the company, and only for admitted
\* articles: the list of relevant articles grows only by an article the
\* gate has just passed.
C18_GateFirst ==
    [][\A p \in Runners :
        /\ run'[p].pc \in Enriching => run'[p].relevant # <<>>
        /\ run'[p].pc \in Enriching \ {"fetch_stock"}
            => run'[p].ri \in 1..Len(run'[p].relevant)
        /\ Len(run'[p].relevant) > Len(run[p].relevant)
            => ( /\ run[p].pc = "triage"
                 /\ run'[p].triage_ret
                 /\ triage_article(run'[p].triage_resp[1]) )
        /\ ( run[p].pc # "idle" /\ cache' # cache ) => run[p].relevant # <<>>]_vars

\* Of two articles of a feed one was rejected; the other is being analysed
C18_Witness ==
    \E p \in Runners :
        /\ run[p].pc = "analyse"
        /\ run[p].stats.total_articles = 2
        /\ Len(run[p].relevant) = 1
        /\ cache.finance # {}

(***************************************************************************)
(* Properties of the fingerprint.                                          *)
(***************************************************************************)
\* C19: the fingerprint depends only on the trimmed, lower-cased headline:
\* every headline equal to the one being stored after trimming and
\* lower-casing has its fingerprint, and so has the hash stored with every
\* event whose headline is another spelling of it.
C19_HashOfNormalised ==
    \A p \in Runners :
        run[p].pc = "store_check"
        => \A text \in { Normalised(Article(run[p])) } :
           \A hash \in { compute_headline_hash(Article(run[p])) } :
                /\ \A h \in Headlines :
                        Normalised(h) = text => compute_headline_hash(h) = hash
                /\ \A i \in RowIds :
                        Normalised(db.risk_events[i].headline) = text
                        => db.risk_events[i].headline_hash = hash

\* A headline is being stored whose other spelling is already in the store
C19_Witness ==
    \E p \in Runners : \E i \in RowIds :
        /\ run[p].pc = "store_check"
        /\ db.risk_events[i].headline # Article(run[p])
        /\ SameFingerprint(db.risk_events[i].headline, Article(run[p]))
        /\ db.risk_events[i].headline_hash = compute_headline_hash(Article(run[p]))

\* A directed path of at least one and at most k edges leads from u to v
RECURSIVE PathWithin(_, _, _, _)
PathWithin(g, u, v, k) ==
    /\ k > 0
    /\ \/ HasEdge(g, u, v)
       \/ \E i \in 1..Len(g.edges) :
            /\ g.edges[i].source = u
            /\ PathWithin(g, g.edges[i].target, v, k - 1)

\* The names a caller can pass: every node of the graph and a place that is
\* in no configuration
QueryLocations(g) == NodeNames(g) \cup {"Atlantis"}

\* C21: companies_affected_by_location(location) is the set of company-typed
\* nodes to which a directed path leads from location, and is empty for a
\* location that is not a node of the graph.
C21_ReachableCompanies ==
    \A p \in Runners :
        \A g \in { run[p].graph } :
            \A location \in QueryLocations(g) :
                /\ companies_affected_by_location(g, location)
                    = { n \in NodeNames(g) \ {location} :
                            /\ node_type(g, n) = "company"
                            /\ PathWithin(g, location, n, Len(g.nodes)) }
                /\ ~HasNode(g, location)
                    => companies_affected_by_location(g, location) = {}

\* A graph in which Tainan manufactures for TSMC and TSMC supplies Apple Inc,
\* with an event attached: two hops lead from the location to the company,
\* three from the event, and none from Nevada or from the company itself
C21_Witness ==
    /\ HasEdge(run[1].graph, "Tainan", "TSMC")
    /\ HasEdge(run[1].graph, "TSMC", "Apple Inc")
    /\ ~HasEdge(run[1].graph, "Tainan", "Apple Inc")
    /\ "Apple Inc" \in companies_affected_by_location(run[1].graph, "Tainan")
    /\ "Apple Inc" \in companies_affected_by_location(run[1].graph, "News: P...")
    /\ HasNode(run[1].graph, "Nevada")
    /\ "Apple Inc" \notin companies_affected_by_location(run[1].graph, "Nevada")
    /\ companies_affected_by_location(run[1].graph, "Apple Inc") = {}

(***************************************************************************)
(* Properties of the stored edges.                                         *)
(***************************************************************************)
NoDuplicateEdges ==
    \A i, j \in 1..Len(db.knowledge_graph_edges) :
        db.knowledge_graph_edges[i] = db.knowledge_graph_edges[j] => i = j

\* C22: the stored edges never hold two rows with the same (source, target,
\* relation, company); a persist_edges call appends exactly the rows it counts
\* and leaves the earlier rows as they are; persisting the same graph for the
\* same company once more returns 0 and writes nothing.
C22_PersistIdempotent ==
    [][/\ NoDuplicateEdges'
       /\ \A p \in Runners :
            ( run[p].pc = "persist_edges" /\ run'[p].pc # "persist_edges" )
            => \A first \in { persist_edges(db.knowledge_graph_edges, run[p].graph,
                                            Company(run[p]).name) } :
               \A second \in { persist_edges(db'.knowledge_graph_edges, run[p].graph,
                                             Company(run[p]).name) } :
                    /\ Len(db'.knowledge_graph_edges)
                            = Len(db.knowledge_graph_edges) + first.count
                    /\ SubSeq(db'.knowledge_graph_edges, 1, Len(db.knowledge_graph_edges))
                            = db.knowledge_graph_edges
                    /\ second.count = 0
                    /\ second.rows = db'.knowledge_graph_edges]_vars

\* A later run is about to persist a graph whose edges are all stored for
\* this company already
C22_Witness ==
    \E p \in Runners :
        /\ run[p].pc = "persist_edges"
        /\ runs = 2
        /\ run[p].graph.edges # <<>>
        /\ db.knowledge_graph_edges # <<>>
        /\ persist_edges(db.knowledge_graph_edges, run[p].graph,
                         Company(run[p]).name).count = 0

\* The companies a run of this model can be asked for, as RiskMonitor holds
\* them
KnownCompanies == InitCompanies(<<"Apple Inc", "Tesla Inc", "Globex", "TSMC">>)

\* The nodes of a company's supply chain: the company, its suppliers and
\* their locations, and the location "Unknown" of a company without nodes
Scope(company) ==
    {company.name}
        \cup { company.supply_chain_nodes[k].entity :
                    k \in 1..Len(company.supply_chain_nodes) }
        \cup { company.supply_chain_nodes[k].location :
                    k \in 1..Len(company.supply_chain_nodes) }
        \cup { NodeLocation(company) }

\* C23: every edge stored under a company's name touches that company's
\* supply chain: its source or its target is the company, one of its
\* suppliers or one of their locations.
C23_OnlyOwnEdges ==
    \A i \in 1..Len(db.knowledge_graph_edges) :
        \A k \in 1..Len(KnownCompanies) :
            KnownCompanies[k].name = db.knowledge_graph_edges[i].company
            => \/ db.knowledge_graph_edges[i].source_node \in Scope(KnownCompanies[k])
               \/ db.knowledge_graph_edges[i].target_node \in Scope(KnownCompanies[k])

(***************************************************************************)
(* Properties of the failure domain.                                       *)
(***************************************************************************)
ArticleStages == {"fetch_weather", "analyse", "store_check", "store_insert",
                  "after_store", "dispatch", "record_alert", "mark_notified"}

\* C29: when the work on one admitted article raises, the step that raises
\* and the handling of it store no event and persist no edge, the events
\* stored before remain, the error counter grows by exactly 1, and the run
\* leaves the company: it goes to the next company or to the summary, with
\* the remaining admitted articles and persist_edges of this company skipped.
C29_CompanyFailureDomain ==
    [][\A p \in Runners :
        /\ ( run[p].pc \in ArticleStages /\ run'[p].pc = "company_error" )
            => ( /\ db' = db
                 /\ run'[p].stats = run[p].stats
                 /\ run'[p].ci = run[p].ci /\ run'[p].ri = run[p].ri )
        /\ run[p].pc = "company_error"
            => ( /\ db'.risk_events = db.risk_events
                 /\ db'.knowledge_graph_edges = db.knowledge_graph_edges
                 /\ run'[p].stats.errors = run[p].stats.errors + 1
                 /\ run'[p].stats.events_stored = run[p].stats.events_stored
                 /\ run'[p].pc \notin ArticleStages \cup {"persist_edges", "fetch_stock"}
                 /\ run'[p].pc = "fetch_news" => run'[p].ci = run[p].ci + 1 )
        /\ ( run[p].pc \notin {"idle", "summary"} /\ run'[p].pc \notin {"idle", "init_raised"} )
            => run'[p].ci >= run[p].ci]_vars

\* Storing the first of two admitted articles has raised on the uniqueness
\* constraint while an event of this company is in the store and the
\* company's edges are not persisted
C29_Witness ==
    \E p \in Runners :
        /\ run[p].pc = "company_error"
        /\ run[p].store_ret = "raised"
        /\ run[p].ri = 1
        /\ Len(run[p].relevant) = 2
        /\ \E i \in RowIds : db.risk_events[i].company_name = Company(run[p]).name
        /\ persist_edges(db.knowledge_graph_edges, run[p].graph,
                         Company(run[p]).name).count > 0

(***************************************************************************)
(* Properties of the run counters.                                         *)
(***************************************************************************)
CountersConsistent(stats) ==
    /\ stats.triaged_passed <= stats.total_articles
    /\ stats.events_stored + stats.duplicates_skipped <= stats.triaged_passed

\* C27: in every state of a run triaged_passed <= total_articles and
\* events_stored + duplicates_skipped <= triaged_passed; counting a duplicate
\* adds 1 to duplicates_skipped and leaves events_stored, alerts_sent and
\* errors as they are; in the summary of a run in which no company raised
\* events_stored + duplicates_skipped = triaged_passed.
C27_CountersConsistent ==
    [][\A p \in Runners :
        /\ CountersConsistent(run'[p].stats)
        /\ ( run[p].pc = "after_store" /\ run[p].store_ret = "duplicate" )
            => ( /\ run'[p].stats.duplicates_skipped
                        = run[p].stats.duplicates_skipped + 1
                 /\ run'[p].stats.events_stored = run[p].stats.events_stored
                 /\ run'[p].stats.alerts_sent = run[p].stats.alerts_sent
                 /\ run'[p].stats.errors = run[p].stats.errors )
        /\ ( run'[p].pc = "summary" /\ run'[p].failed = {} )
            => run'[p].stats.events_stored + run'[p].stats.duplicates_skipped
                    = run'[p].stats.triaged_passed]_vars

\* The summary of a run without a raise in which the gate rejected an
\* article, one event was stored and a duplicate was skipped
C27_Witness ==
    \E p \in Runners :
        /\ run[p].pc = "summary"
        /\ run[p].failed = {}
        /\ run[p].stats.events_stored = 1
        /\ run[p].stats.duplicates_skipped >= 1
        /\ run[p].stats.total_articles > run[p].stats.triaged_passed

(***************************************************************************)
(* Properties of the deduplication across companies.                       *)
(***************************************************************************)
\* An event of another company with the fingerprint of the article of p,
\* created within the last 24 hours
StoredForOther(p, i) ==
    /\ SameFingerprint(db.risk_events[i].headline, Article(run[p]))
    /\ db.risk_events[i].created_at >= time_time - Window
    /\ db.risk_events[i].company_name # Company(run[p]).name

\* C28: store_risk_event for a headline whose fingerprint was stored for a
\* different company within the last 24 hours returns None and writes
\* nothing, and the run then counts a duplicate: it stores no event and
\* dispatches and records no alert for the article.
C28_DedupAcrossCompanies ==
    [][\A p \in Runners :
        /\ ( run[p].pc = "store_check" /\ \E i \in RowIds : StoredForOther(p, i) )
            => ( /\ run'[p].pc = "after_store"
                 /\ run'[p].store_ret = "duplicate"
                 /\ db' = db )
        /\ ( run[p].pc = "after_store" /\ run[p].store_ret = "duplicate" )
            => ( /\ db' = db
                 /\ run'[p].pc \notin {"dispatch", "record_alert", "mark_notified"}
                 /\ run'[p].stats.events_stored = run[p].stats.events_stored
                 /\ run'[p].stats.alerts_sent = run[p].stats.alerts_sent )]_vars

\* Globex's article was found to be a duplicate of an event that only
\* Apple Inc has in the store
C28_Witness ==
    \E p \in Runners :
        /\ run[p].pc = "after_store"
        /\ run[p].store_ret = "duplicate"
        /\ Company(run[p]).name = "Globex"
        /\ \E i \in RowIds : StoredForOther(p, i)
        /\ \A i \in RowIds :
                SameFingerprint(db.risk_events[i].headline, Article(run[p]))
                => db.risk_events[i].company_name = "Apple Inc"

(***************************************************************************)
(* Properties of the weather sensor.                                       *)
(***************************************************************************)
\* C25: a reading is flagged severe exactly when its code is one of the
\* severe codes or its temperature is above 45 or below -30 degrees; with
\* another code and a temperature from -30 to 45 inclusive the label is
\* normal.
C25_SevereExactly ==
    \A e \in cache.weather :
        /\ e[2].is_severe
            <=> ( \/ e[2].weather_code \in SEVERE_CODES
                  \/ e[2].temperature_c > 45
                  \/ e[2].temperature_c < -30 )
        /\ ( /\ e[2].weather_code \notin SEVERE_CODES
             /\ e[2].temperature_c >= -30
             /\ e[2].temperature_c <= 45 )
            => e[2].severity_label = "normal"

(***************************************************************************)
(* Properties of the dashboard's monitor.                                  *)
(***************************************************************************)
\* Line 618 reads the dict of its own script run, where active is False: the
\* Stop button is never offered and no stop is ever requested of the thread.
StopNeverOffered ==
    /\ ~monitor.is_active
    /\ ~monitor.page.stop_requested
    /\ ~monitor.cfg.stop_requested
    /\ ~monitor.stop_pending
    /\ monitor.state # "stopped"

\* The dashboard's scheduler: with a stop requested the thread leaves its
\* sleep at the next check and sleeps no further chunk; while a stop requested
\* during a run or the sleep is not yet reported the thread begins no
\* pipeline run; and such a stop is eventually reported as state "stopped".
DashboardCooperativeStop ==
    /\ [][/\ ( monitor.tpc = "sleep_check" /\ monitor.cfg.stop_requested )
                => monitor'.tpc # "sleep5"
          /\ monitor.stop_pending
                => ~( monitor.tpc = "begin_cycle" /\ monitor'.tpc = "run_start" )]_vars
    /\ ( monitor.stop_pending ~> monitor.state = "stopped" )

\* The stand-alone scheduler: once told to stop it begins no pipeline run,
\* and the stop is eventually reported as state "stopped".
DaemonCooperativeStop ==
    /\ [][daemon.stop_requested
                => ~( daemon.pc = "cycle" /\ daemon'.pc = "run_cycle_start" )]_vars
    /\ ( daemon.stop_requested ~> daemon.state = "stopped" )

\* C24: each repeating scheduler, once a stop is requested during a run or
\* during the sleep between runs, starts no further pipeline run, leaves its
\* sleep without waiting out the interval, and eventually reports state
\* "stopped".
C24_CooperativeStop ==
    /\ DashboardCooperativeStop
    /\ DaemonCooperativeStop

\* C30: once the UI has completed a Start and no Stop after it, the active
\* flag the monitor thread reads is true.
C30_StartNotLost ==
    monitor.last_request = "start" => monitor.cfg.active

(***************************************************************************)
(* Properties of the rate limiter.                                         *)
(***************************************************************************)
\* C26: between two consecutive requests to the market endpoint at least 12
\* seconds pass: a run that leaves _respect_rate_limit for its request does
\* so at least 12 seconds after the request before it, if there was one.
C26_RequestsSpaced ==
    [][\A p \in Runners :
        ( /\ run[p].pc = "rate_stamp"
          /\ run'[p].pc = "stock_request"
          /\ limiter.last_call_ts > 0 )
        => limiter'.last_call_ts - limiter.last_call_ts >= RateLimitSeconds]_vars

=============================================================================
